---- MODULE Spec2Model ----
(***************************************************************************)
(* Offline storage service of the mobile app                               *)
(* (adaptive-math-learning/mobile/services/offline.ts, class               *)
(* OfflineService).                                                        *)
(*                                                                         *)
(* The service is a singleton whose methods are async functions running    *)
(* on one JavaScript event loop: the code between two awaits runs          *)
(* atomically, and every await (NetInfo.fetch, AsyncStorage.getItem /      *)
(* setItem, validateAnswer, generateQuestion) is a point where other       *)
(* calls' continuations may run.  Each action below is one such atomic     *)
(* stretch of a handler, named after the await whose completion starts it. *)
(***************************************************************************)
EXTENDS Integers, Sequences, FiniteSets, TLC

(* ------------------------------------------------------------------ *)
(* Bounds of the model                                                *)
(* ------------------------------------------------------------------ *)

\* queueAnswer calls made in one behaviour
MaxResults == 2

\* results an earlier session left in the persisted queue (StoredInit)
MaxStored == 3

\* connectivity events the platform emits after the one at subscription
MaxNetEvents == 1

\* submissions the server fails before it accepts every one (LiveSpec)
MaxRejects == 1

\* clock readings: Date.now() runs from 0 to MaxTime
MaxTime == 3

\* questions generateQuestion hands out in one behaviour
MaxFetches == 2

\* largest `count` passed to cacheQuestions
MaxCount == 2

\* results waiting in the persisted queue while connectivity changes (GuardSpec)
MaxWaiting == 1

\* syncPendingAnswers calls that may be in flight together
SyncCalls == {1, 2}

\* queueAnswer calls that may be in flight together
QueueCalls == {1, 2}

\* getOfflineQuestion calls that may be in flight together
TakeCalls == {1, 2}

\* saveProgress / getProgress / updateLocalMastery calls that may be in flight together
ProgressCalls == {1, 2}

(* ------------------------------------------------------------------ *)
(* Values                                                             *)
(* ------------------------------------------------------------------ *)

\* state.isConnected of NetInfo: true, false or null
Signal == {"on", "off", "unknown"}

None == "none"

\* AnswerResult of validateAnswer (is_correct, xp_earned?), or a rejected promise
Thrown == [thrown |-> TRUE, is_correct |-> FALSE, xp_earned |-> 0]

Returned(correct, xp) == [thrown |-> FALSE, is_correct |-> correct, xp_earned |-> xp]

Responses == {Thrown, Returned(TRUE, 1), Returned(FALSE, 0)}

\* const result: SyncResult = { synced_answers: 0, failed_answers: 0, new_xp: 0, errors: [] }
SyncResult(synced, failed, xp, errors) ==
    [synced_answers |-> synced, failed_answers |-> failed, new_xp |-> xp, errors |-> errors]

ErrInProgress == "Sync already in progress"

ErrOffline == "Device is offline"

\* `Failed to sync answer ${answer.id}: ${error}`
ErrFailed(answer) == <<"Failed to sync answer", answer.id>>

\* const pending: PendingAnswer = { id: `pending_${Date.now()}`, question_id, ... }
PendingAnswer(t, n) == [id |-> t, question_id |-> n]

\* 24 * 60 * 60 * 1000 ms, in clock units of 12 hours
TTL == 2

Topics == {"arithmetic", "algebra"}

\* getCachedQuestions(): topic_slug left out
NoTopic == ""

\* CachedQuestion; `question` is the payload generateQuestion returned, told
\* apart by its number; id is `cached_${Date.now()}_${i}`.  difficulty_tier
\* is carried along and never read, and is left out.
CachedQuestion(t, i, topic, question, cachedAt, expiresAt) ==
    [id |-> <<t, i>>, topic_slug |-> topic, question |-> question,
     cached_at |-> cachedAt, expires_at |-> expiresAt]

\* no question: the locals before they are assigned
NoQuestion == CachedQuestion(0, 0, NoTopic, 0, 0, 0)

\* return null
Null == 0

\* OfflineProgress; topic_mastery is a Record<string, number>: a function on
\* the topics that have an entry.  JSON.stringify / JSON.parse give back the
\* same strings and finite numbers.
OfflineProgress(user, xp, level, streak, mastery, updated) ==
    [user_id |-> user, total_xp |-> xp, level |-> level, streak |-> streak,
     topic_mastery |-> mastery, last_updated |-> updated]

\* the `progress` arguments of saveProgress (their last_updated is whatever
\* the caller had)
Progresses ==
    {OfflineProgress("u1", 0, 1, 0, << >>, 0),
     OfflineProgress("u2", 5, 2, 1, ("arithmetic" :> 1), 0)}

\* the `mastery` arguments of updateLocalMastery
Masteries == {2}

\* the keys clearAllData removes
ClearedKeys == {"CACHED_QUESTIONS", "PENDING_ANSWERS", "USER_PROGRESS", "OFFLINE_STATS"}

VARIABLES
    cachedQuestions, \* AsyncStorage[CACHED_QUESTIONS]
    fill,            \* the cacheQuestions call: position and locals
    take,            \* the getOfflineQuestion calls: position and locals
    sweep,           \* the clearExpiredCache call: position and locals
    fetched,         \* number of questions generateQuestion has handed out
    counting,        \* the getCacheCount call: position and locals
    taken,           \* question -> times getOfflineQuestion returned it (2: twice or more)
    now,             \* Date.now(), in clock units
    net,             \* the platform's connectivity (what NetInfo would report)
    evq,             \* NetInfo events emitted and not yet delivered to the listener
    nev,             \* number of events emitted after subscription
    lastEv,          \* the last delivered event: signal before, signal, whether it called sync
    isOnline,        \* OfflineService.isOnline
    syncInProgress,  \* OfflineService.syncInProgress
    probing,         \* a direct checkOnline() call is awaiting NetInfo.fetch
    pendingAnswers,  \* AsyncStorage[PENDING_ANSWERS]
    lastSync,        \* AsyncStorage[LAST_SYNC]: << >> when absent, else <<time>>
    offlineStats,    \* AsyncStorage[OFFLINE_STATS].questions_answered_offline
    sync,            \* the syncPendingAnswers calls: position and locals
    enq,             \* the queueAnswer calls: position and locals
    serial,          \* number of queueAnswer calls made
    written,         \* results whose queueAnswer has written the queue
    accepted,        \* the server's record: result -> times answered without error (2: twice or more)
    rejects,         \* submissions the server has failed (counted in LiveSpec only)
    userProgress,    \* AsyncStorage[USER_PROGRESS]: << >> when absent, else <<snapshot>>
    prog,            \* the saveProgress / getProgress / updateLocalMastery calls: position and locals
    clear            \* the clearAllData call: position and the keys still to remove

cacheVars == <<cachedQuestions, fill, take, sweep, counting, fetched, taken>>

queueVars == <<syncInProgress, probing, pendingAnswers, lastSync, offlineStats,
               sync, enq, serial, written, accepted, rejects>>

vars == <<cachedQuestions, fill, take, sweep, counting, fetched, taken, now, net, evq, nev, lastEv, isOnline, syncInProgress, probing,
          pendingAnswers, lastSync, offlineStats, sync, enq, serial,
          written, accepted, rejects, userProgress, prog, clear>>

progressVars == <<userProgress, prog, clear>>

netVars == <<net, evq, nev, lastEv>>

ghostVars == <<written, accepted, rejects>>

(* ------------------------------------------------------------------ *)
(* Helpers                                                            *)
(* ------------------------------------------------------------------ *)

\* state.isConnected ?? false
Connected(v) == v = "on"

\* `during`: the results written to the queue by queueAnswer between this
\* call's snapshot and its write of the queue.
IdleSync ==
    [pc |-> "idle", pending |-> <<>>, idx |-> 0, remaining |-> <<>>,
     result |-> SyncResult(0, 0, 0, <<>>), outcomes |-> <<>>, during |-> {}]

\* no entry built yet
NoAnswer == PendingAnswer(0, 0)

IdleEnq == [pc |-> "idle", pending |-> NoAnswer, existing |-> <<>>, stats |-> 0]

IdleFill ==
    [pc |-> "idle", topic_slug |-> NoTopic, count |-> 0, i |-> 0, cached |-> << >>,
     at |-> 0, expires |-> 0, valid |-> << >>, ret |-> 0]

IdleTake ==
    [pc |-> "idle", topic_slug |-> NoTopic, calledAt |-> 0, first |-> NoQuestion,
     updated |-> << >>, ret |-> Null]

\* `prior`: for a call made right after another clearExpiredCache returned,
\* <<[at, left, removed]>>: the time the earlier call was made, the cache it
\* left and the number it returned; << >> otherwise.
IdleSweep ==
    [pc |-> "idle", calledAt |-> 0, valid |-> << >>, removed |-> 0, prior |-> << >>]

IdleCount == [pc |-> "idle", topic_slug |-> NoTopic, ret |-> 0]

\* `value`: <<the object handed to setItem>>; `ret`: << >> for null, else
\* <<the snapshot returned>>.
IdleProgress ==
    [pc |-> "idle", op |-> None, topic_slug |-> NoTopic, mastery |-> 0,
     value |-> << >>, ret |-> << >>]

IdleClear == [pc |-> "idle", left |-> {}]

\* Calls in flight are named by the lowest free name: which name a call gets
\* changes nothing it does.
FreeSync(c) == sync[c].pc = "idle" /\ \A d \in SyncCalls : d < c => sync[d].pc # "idle"

FreeTake(t) == take[t].pc = "idle" /\ \A d \in TakeCalls : d < t => take[d].pc # "idle"

FreeEnq(q) == enq[q].pc = "idle" /\ \A d \in QueueCalls : d < q => enq[d].pc # "idle"

FreeProgress(p) ==
    prog[p].pc = "idle" /\ \A d \in ProgressCalls : d < p => prog[d].pc # "idle"

\* The service right after construction, on given storage contents.
Constructed(queue) ==
    /\ cachedQuestions = << >>
    /\ fill = IdleFill
    /\ take = [t \in TakeCalls |-> IdleTake]
    /\ sweep = IdleSweep
    /\ counting = IdleCount
    /\ fetched = 0
    /\ taken = << >>
    /\ now = Len(queue)
    /\ net \in {"on", "off"}
    /\ evq = <<net>>
    /\ nev = 0
    /\ lastEv = [prev |-> None, cur |-> None, fired |-> FALSE]
    /\ isOnline = TRUE
    /\ syncInProgress = FALSE
    /\ probing = FALSE
    /\ pendingAnswers = queue
    /\ lastSync = << >>
    /\ offlineStats = Len(queue)
    /\ sync = [c \in SyncCalls |-> IdleSync]
    /\ enq = [q \in QueueCalls |-> IdleEnq]
    /\ serial = Len(queue)
    /\ written = 1..Len(queue)
    /\ accepted = << >>
    /\ rejects = 0
    /\ userProgress = << >>
    /\ prog = [p \in ProgressCalls |-> IdleProgress]
    /\ clear = IdleClear

\* First start: nothing persisted.
Init == Constructed(<< >>)

\* A start on the queue an earlier session persisted: k results, queued at
\* clock readings 1..k.
StoredQueue(k) == [n \in 1..k |-> PendingAnswer(n, n)]

StoredInit == \E k \in 0..MaxStored : Constructed(StoredQueue(k))

(* ------------------------------------------------------------------ *)
(* syncPendingAnswers                                                 *)
(* ------------------------------------------------------------------ *)

\* SyncEntered without the reentrancy guard.
SyncEnteredUnguarded(c) == [sync EXCEPT ![c] = [IdleSync EXCEPT !.pc = "probe"]]

\* The synchronous head of syncPendingAnswers(): the reentrancy guard, then
\* the call of checkOnline(), which suspends on NetInfo.fetch().
SyncEntered(c) ==
    IF syncInProgress
    THEN [sync EXCEPT ![c] = [IdleSync EXCEPT !.pc = "done",
                                !.result = SyncResult(0, 0, 0, <<ErrInProgress>>)]]
    ELSE [sync EXCEPT ![c] = [IdleSync EXCEPT !.pc = "probe"]]

\* The app calls syncPendingAnswers().
SyncCall(c) ==
    /\ FreeSync(c)
    /\ sync' = SyncEntered(c)
    /\ UNCHANGED <<now, cacheVars, netVars, isOnline, syncInProgress, probing, pendingAnswers,
                   lastSync, offlineStats, enq, serial, ghostVars, progressVars>>

\* SyncProbed deciding on the stored flag instead of the probe's answer.
SyncProbedStale(c) ==
    /\ sync[c].pc = "probe"
    /\ isOnline' = Connected(net)
    /\ IF ~isOnline
       THEN /\ sync' = [sync EXCEPT ![c].pc = "done",
                           ![c].result = SyncResult(0, 0, 0, <<ErrOffline>>)]
            /\ UNCHANGED syncInProgress
       ELSE /\ syncInProgress' = TRUE
            /\ sync' = [sync EXCEPT ![c].pc = "read"]
    /\ UNCHANGED <<now, cacheVars, netVars, probing, pendingAnswers, lastSync, offlineStats,
                   enq, serial, ghostVars, progressVars>>

\* NetInfo.fetch() resolves inside checkOnline(); the offline guard; the flag
\* is set and getPendingAnswers() suspends on AsyncStorage.getItem.
SyncProbed(c) ==
    /\ sync[c].pc = "probe"
    /\ isOnline' = Connected(net)
    /\ IF ~isOnline'
       THEN /\ sync' = [sync EXCEPT ![c].pc = "done",
                           ![c].result = SyncResult(0, 0, 0, <<ErrOffline>>)]
            /\ UNCHANGED syncInProgress
       ELSE /\ syncInProgress' = TRUE
            /\ sync' = [sync EXCEPT ![c].pc = "read"]
    /\ UNCHANGED <<now, cacheVars, netVars, probing, pendingAnswers, lastSync, offlineStats,
                   enq, serial, ghostVars, progressVars>>

\* SyncRead iterating the snapshot newest first.
SyncReadNewestFirst(c) ==
    /\ sync[c].pc = "read"
    /\ sync' = [sync EXCEPT ![c].pending = [i \in 1..Len(pendingAnswers) |->
                                              pendingAnswers[Len(pendingAnswers) + 1 - i]],
                            ![c].remaining = <<>>,
                            ![c].idx = 1,
                            ![c].pc = IF pendingAnswers = <<>> THEN "write" ELSE "submit"]
    /\ UNCHANGED <<now, cacheVars, netVars, isOnline, syncInProgress, probing, pendingAnswers,
                   lastSync, offlineStats, enq, serial, ghostVars, progressVars>>

\* SyncRead emptying the persisted queue as it takes the snapshot.
SyncReadTakes(c) ==
    /\ sync[c].pc = "read"
    /\ pendingAnswers' = << >>
    /\ sync' = [sync EXCEPT ![c].pending = pendingAnswers,
                            ![c].remaining = <<>>,
                            ![c].idx = 1,
                            ![c].pc = IF pendingAnswers = <<>> THEN "write" ELSE "submit"]
    /\ UNCHANGED <<now, cacheVars, netVars, isOnline, syncInProgress, probing,
                   lastSync, offlineStats, enq, serial, ghostVars, progressVars>>

\* getPendingAnswers() resolves: the snapshot; the loop's first validateAnswer
\* is issued, or with nothing pending the queue write.
SyncRead(c) ==
    /\ sync[c].pc = "read"
    /\ sync' = [sync EXCEPT ![c].pending = pendingAnswers,
                            ![c].remaining = <<>>,
                            ![c].idx = 1,
                            ![c].pc = IF pendingAnswers = <<>> THEN "write" ELSE "submit"]
    /\ UNCHANGED <<now, cacheVars, netVars, isOnline, syncInProgress, probing, pendingAnswers,
                   lastSync, offlineStats, enq, serial, ghostVars, progressVars>>

\* Submitted with remaining.push(answer) moved out of the catch block.
SubmittedKeepsAll(s, resp) ==
    LET answer == s.pending[s.idx]
        r == s.result
        last == s.idx = Len(s.pending)
    IN  [s EXCEPT !.result = IF resp.thrown
                             THEN SyncResult(r.synced_answers, r.failed_answers + 1, r.new_xp,
                                             Append(r.errors, ErrFailed(answer)))
                             ELSE SyncResult(r.synced_answers + 1, r.failed_answers,
                                             r.new_xp + resp.xp_earned, r.errors),
                  !.remaining = Append(s.remaining, answer),
                  !.outcomes = Append(s.outcomes, resp),
                  !.idx = s.idx + 1,
                  !.pc = IF last THEN "write" ELSE "submit"]

\* Submitted with the catch block counting the entry as synced.
SubmittedMiscounts(s, resp) ==
    LET answer == s.pending[s.idx]
        r == s.result
        last == s.idx = Len(s.pending)
    IN  [s EXCEPT !.result = IF resp.thrown
                             THEN SyncResult(r.synced_answers + 1, r.failed_answers, r.new_xp,
                                             Append(r.errors, ErrFailed(answer)))
                             ELSE SyncResult(r.synced_answers + 1, r.failed_answers,
                                             r.new_xp + resp.xp_earned, r.errors),
                  !.remaining = IF resp.thrown THEN Append(s.remaining, answer)
                                ELSE s.remaining,
                  !.outcomes = Append(s.outcomes, resp),
                  !.idx = s.idx + 1,
                  !.pc = IF last THEN "write" ELSE "submit"]

\* Submitted leaving the loop at the first submission that throws.
SubmittedAborts(s, resp) ==
    LET answer == s.pending[s.idx]
        r == s.result
        last == s.idx = Len(s.pending)
    IN  IF resp.thrown
        THEN [s EXCEPT !.result = SyncResult(r.synced_answers, r.failed_answers + 1, r.new_xp,
                                             Append(r.errors, ErrFailed(answer))),
                       !.remaining = Append(s.remaining, answer),
                       !.outcomes = Append(s.outcomes, resp),
                       !.idx = s.idx + 1,
                       !.pc = "write"]
        ELSE [s EXCEPT !.result = SyncResult(r.synced_answers + 1, r.failed_answers,
                                             IF resp.xp_earned # 0
                                             THEN r.new_xp + resp.xp_earned ELSE r.new_xp,
                                             r.errors),
                       !.outcomes = Append(s.outcomes, resp),
                       !.idx = s.idx + 1,
                       !.pc = IF last THEN "write" ELSE "submit"]

\* Submitted counting a failure without recording its message.
SubmittedDropsDiagnostic(s, resp) ==
    LET answer == s.pending[s.idx]
        r == s.result
        last == s.idx = Len(s.pending)
    IN  IF resp.thrown
        THEN [s EXCEPT !.result = SyncResult(r.synced_answers, r.failed_answers + 1, r.new_xp,
                                             r.errors),
                       !.remaining = Append(s.remaining, answer),
                       !.outcomes = Append(s.outcomes, resp),
                       !.idx = s.idx + 1,
                       !.pc = IF last THEN "write" ELSE "submit"]
        ELSE [s EXCEPT !.result = SyncResult(r.synced_answers + 1, r.failed_answers,
                                             IF resp.xp_earned # 0
                                             THEN r.new_xp + resp.xp_earned ELSE r.new_xp,
                                             r.errors),
                       !.outcomes = Append(s.outcomes, resp),
                       !.idx = s.idx + 1,
                       !.pc = IF last THEN "write" ELSE "submit"]

\* The loop body after validateAnswer settles with `resp`.
Submitted(s, resp) ==
    LET answer == s.pending[s.idx]
        r == s.result
        last == s.idx = Len(s.pending)
    IN  IF resp.thrown
        THEN [s EXCEPT !.result = SyncResult(r.synced_answers, r.failed_answers + 1, r.new_xp,
                                             Append(r.errors, ErrFailed(answer))),
                       !.remaining = Append(s.remaining, answer),
                       !.outcomes = Append(s.outcomes, resp),
                       !.idx = s.idx + 1,
                       !.pc = IF last THEN "write" ELSE "submit"]
        ELSE [s EXCEPT !.result = SyncResult(r.synced_answers + 1, r.failed_answers,
                                             IF resp.xp_earned # 0
                                             THEN r.new_xp + resp.xp_earned ELSE r.new_xp,
                                             r.errors),
                       !.outcomes = Append(s.outcomes, resp),
                       !.idx = s.idx + 1,
                       !.pc = IF last THEN "write" ELSE "submit"]

\* The server's record of a submission it answered.
Accept(acc, n) ==
    IF n \in DOMAIN acc
    THEN [acc EXCEPT ![n] = IF @ < 2 THEN @ + 1 ELSE @]
    ELSE acc @@ (n :> 1)

\* validateAnswer settles with `resp` for the current entry of the snapshot.
SyncSubmitted(c, resp) ==
    /\ sync[c].pc = "submit"
    /\ sync' = [sync EXCEPT ![c] = Submitted(sync[c], resp)]
    /\ accepted' = IF resp.thrown THEN accepted
                   ELSE Accept(accepted, sync[c].pending[sync[c].idx].question_id)
    /\ UNCHANGED <<now, cacheVars, netVars, isOnline, syncInProgress, probing, pendingAnswers,
                   lastSync, offlineStats, enq, serial, written, progressVars>>

\* The server answers or fails as it likes.
SyncSubmit(c) ==
    \E resp \in Responses : SyncSubmitted(c, resp) /\ UNCHANGED rejects

\* The server fails at most MaxRejects submissions, then accepts every one.
SyncSubmitEventually(c) ==
    \E resp \in Responses :
       /\ SyncSubmitted(c, resp)
       /\ IF resp.thrown
          THEN rejects < MaxRejects /\ rejects' = rejects + 1
          ELSE UNCHANGED rejects

\* SyncWrite writing the snapshot back instead of the failed entries.
SyncWriteSnapshot(c) ==
    /\ sync[c].pc = "write"
    /\ pendingAnswers' = sync[c].pending
    /\ sync' = [sync EXCEPT ![c].pc = "stamp"]
    /\ UNCHANGED <<now, cacheVars, netVars, isOnline, syncInProgress, probing,
                   lastSync, offlineStats, enq, serial, ghostVars, progressVars>>

\* SyncWrite removing the progress snapshot along with the synced results.
SyncWriteDropsProgress(c) ==
    /\ sync[c].pc = "write"
    /\ pendingAnswers' = sync[c].remaining
    /\ userProgress' = << >>
    /\ sync' = [sync EXCEPT ![c].pc = "stamp"]
    /\ UNCHANGED <<now, cacheVars, netVars, isOnline, syncInProgress, probing,
                   lastSync, offlineStats, enq, serial, ghostVars, prog, clear>>

\* AsyncStorage.setItem(PENDING_ANSWERS, remaining) takes effect.
SyncWrite(c) ==
    /\ sync[c].pc = "write"
    /\ pendingAnswers' = sync[c].remaining
    /\ sync' = [sync EXCEPT ![c].pc = "stamp"]
    /\ UNCHANGED <<now, cacheVars, netVars, isOnline, syncInProgress, probing,
                   lastSync, offlineStats, enq, serial, ghostVars, progressVars>>

\* SyncStamp recording the time only when no submission failed.
SyncStampOnSuccess(c) ==
    /\ sync[c].pc = "stamp"
    /\ lastSync' = IF sync[c].result.failed_answers = 0 THEN <<now>> ELSE lastSync
    /\ syncInProgress' = FALSE
    /\ sync' = [sync EXCEPT ![c].pc = "done"]
    /\ UNCHANGED <<now, cacheVars, netVars, isOnline, probing, pendingAnswers,
                   offlineStats, enq, serial, ghostVars, progressVars>>

\* AsyncStorage.setItem(LAST_SYNC, now) takes effect; finally releases the flag.
SyncStamp(c) ==
    /\ sync[c].pc = "stamp"
    /\ lastSync' = <<now>>
    /\ syncInProgress' = FALSE
    /\ sync' = [sync EXCEPT ![c].pc = "done"]
    /\ UNCHANGED <<now, cacheVars, netVars, isOnline, probing, pendingAnswers,
                   offlineStats, enq, serial, ghostVars, progressVars>>

\* The caller receives the SyncResult.
SyncReturn(c) ==
    /\ sync[c].pc = "done"
    /\ sync' = [sync EXCEPT ![c] = IdleSync]
    /\ UNCHANGED <<now, cacheVars, netVars, isOnline, syncInProgress, probing, pendingAnswers,
                   lastSync, offlineStats, enq, serial, ghostVars, progressVars>>

(* ------------------------------------------------------------------ *)
(* Network state                                                      *)
(* ------------------------------------------------------------------ *)

\* The platform's connectivity changes, or NetInfo re-emits it (a change of
\* details only); the event is queued for the listener.
NetChanged(v) ==
    /\ nev < MaxNetEvents
    /\ net' = v
    /\ evq' = Append(evq, v)
    /\ nev' = nev + 1
    /\ UNCHANGED <<now, cacheVars, lastEv, isOnline, syncInProgress, probing, pendingAnswers,
                   lastSync, offlineStats, sync, enq, serial, ghostVars, progressVars>>

NetChange == \E v \in Signal : NetChanged(v)

\* Connectivity is restored.
Reconnect == net # "on" /\ NetChanged("on")

\* The callback registered by setupNetworkListener() runs for one event.  An
\* event whose callback would start a call is delivered once a name for the
\* call is free.
NetworkListener ==
    /\ evq # <<>>
    /\ LET v == Head(evq)
           wasOffline == ~isOnline
           fire == wasOffline /\ Connected(v)
       IN  /\ isOnline' = Connected(v)
           /\ evq' = Tail(evq)
           /\ lastEv' = [prev |-> lastEv.cur, cur |-> v, fired |-> fire]
           /\ IF fire
              THEN \E c \in SyncCalls :
                     /\ FreeSync(c)
                     /\ sync' = SyncEntered(c)
              ELSE UNCHANGED sync
    /\ UNCHANGED <<now, cacheVars, net, nev, syncInProgress, probing, pendingAnswers,
                   lastSync, offlineStats, enq, serial, ghostVars, progressVars>>

\* The app calls checkOnline(); it suspends on NetInfo.fetch().
CheckOnlineCall ==
    /\ ~probing
    /\ probing' = TRUE
    /\ UNCHANGED <<now, cacheVars, netVars, isOnline, syncInProgress, pendingAnswers,
                   lastSync, offlineStats, sync, enq, serial, ghostVars, progressVars>>

\* NetInfo.fetch() resolves for a direct checkOnline().
CheckOnline ==
    /\ probing
    /\ isOnline' = Connected(net)
    /\ probing' = FALSE
    /\ UNCHANGED <<now, cacheVars, netVars, syncInProgress, pendingAnswers,
                   lastSync, offlineStats, sync, enq, serial, ghostVars, progressVars>>

(* ------------------------------------------------------------------ *)
(* queueAnswer                                                        *)
(* ------------------------------------------------------------------ *)

\* queueAnswer() is called: the entry is built, getPendingAnswers() suspends.
QueueAnswer(q) ==
    /\ FreeEnq(q)
    /\ serial < MaxResults
    /\ serial' = serial + 1
    /\ enq' = [enq EXCEPT ![q] = [IdleEnq EXCEPT !.pc = "read",
                                      !.pending = PendingAnswer(now, serial + 1)]]
    /\ UNCHANGED <<now, cacheVars, netVars, isOnline, syncInProgress, probing, pendingAnswers,
                   lastSync, offlineStats, sync, ghostVars, progressVars>>

\* getPendingAnswers() resolves: existing.push(pending); setItem is issued.
QueueRead(q) ==
    /\ enq[q].pc = "read"
    /\ enq' = [enq EXCEPT ![q].existing = Append(pendingAnswers, enq[q].pending),
                          ![q].pc = "write"]
    /\ UNCHANGED <<now, cacheVars, netVars, isOnline, syncInProgress, probing, pendingAnswers,
                   lastSync, offlineStats, sync, serial, ghostVars, progressVars>>

\* AsyncStorage.setItem(PENDING_ANSWERS, existing) takes effect;
\* updateOfflineStats(true) suspends on getItem.
QueueWrite(q) ==
    /\ enq[q].pc = "write"
    /\ pendingAnswers' = enq[q].existing
    /\ written' = written \cup {enq[q].pending.question_id}
    /\ enq' = [enq EXCEPT ![q].pc = "statsRead"]
    /\ sync' = [c \in SyncCalls |->
                  IF sync[c].pc \in {"submit", "write"}
                  THEN [sync[c] EXCEPT !.during = @ \cup {enq[q].pending.question_id}]
                  ELSE sync[c]]
    /\ UNCHANGED <<now, cacheVars, netVars, isOnline, syncInProgress, probing,
                   lastSync, offlineStats, serial, accepted, rejects, progressVars>>

\* updateOfflineStats: getItem resolves, stats.questions_answered_offline++.
QueueStatsRead(q) ==
    /\ enq[q].pc = "statsRead"
    /\ enq' = [enq EXCEPT ![q].stats = offlineStats + 1, ![q].pc = "statsWrite"]
    /\ UNCHANGED <<now, cacheVars, netVars, isOnline, syncInProgress, probing, pendingAnswers,
                   lastSync, offlineStats, sync, serial, ghostVars, progressVars>>

\* updateOfflineStats: setItem takes effect; queueAnswer returns.
QueueStatsWrite(q) ==
    /\ enq[q].pc = "statsWrite"
    /\ offlineStats' = enq[q].stats
    /\ enq' = [enq EXCEPT ![q] = IdleEnq]
    /\ UNCHANGED <<now, cacheVars, netVars, isOnline, syncInProgress, probing, pendingAnswers,
                   lastSync, sync, serial, ghostVars, progressVars>>

(* ------------------------------------------------------------------ *)
(* Storage read failures                                              *)
(* ------------------------------------------------------------------ *)

\* getPendingAnswers() when AsyncStorage.getItem rejects (or JSON.parse
\* throws): the catch block logs and returns [].
GetPendingAnswersFailed == << >>

\* queueAnswer: getPendingAnswers() fails; existing = [], then
\* existing.push(pending); setItem is issued.
QueueReadFailed(q) ==
    /\ enq[q].pc = "read"
    /\ enq' = [enq EXCEPT ![q].existing = Append(GetPendingAnswersFailed, enq[q].pending),
                          ![q].pc = "write"]
    /\ UNCHANGED <<now, cacheVars, netVars, isOnline, syncInProgress, probing, pendingAnswers,
                   lastSync, offlineStats, sync, serial, ghostVars, progressVars>>

\* syncPendingAnswers: getPendingAnswers() fails; pending = [], the loop has
\* nothing to do and the queue write is issued.
SyncReadFailed(c) ==
    /\ sync[c].pc = "read"
    /\ sync' = [sync EXCEPT ![c].pending = GetPendingAnswersFailed,
                            ![c].remaining = <<>>,
                            ![c].idx = 1,
                            ![c].pc = "write"]
    /\ UNCHANGED <<now, cacheVars, netVars, isOnline, syncInProgress, probing, pendingAnswers,
                   lastSync, offlineStats, enq, serial, ghostVars, progressVars>>

(* ------------------------------------------------------------------ *)
(* Storage write failures                                             *)
(* ------------------------------------------------------------------ *)

\* SyncWriteFailed without the finally block: the flag stays set.
SyncWriteFailedHolds(c) ==
    /\ sync[c].pc = "write"
    /\ sync' = [sync EXCEPT ![c].pc = "raised"]
    /\ UNCHANGED <<now, cacheVars, netVars, isOnline, syncInProgress, probing, pendingAnswers,
                   lastSync, offlineStats, enq, serial, ghostVars, progressVars>>

\* syncPendingAnswers: AsyncStorage.setItem(PENDING_ANSWERS, ...) rejects.
\* There is no catch: finally clears the flag and the call's promise rejects.
SyncWriteFailed(c) ==
    /\ sync[c].pc = "write"
    /\ syncInProgress' = FALSE
    /\ sync' = [sync EXCEPT ![c].pc = "raised"]
    /\ UNCHANGED <<now, cacheVars, netVars, isOnline, probing, pendingAnswers,
                   lastSync, offlineStats, enq, serial, ghostVars, progressVars>>

\* syncPendingAnswers: AsyncStorage.setItem(LAST_SYNC, ...) rejects; finally
\* clears the flag and the call's promise rejects.
SyncStampFailed(c) ==
    /\ sync[c].pc = "stamp"
    /\ syncInProgress' = FALSE
    /\ sync' = [sync EXCEPT ![c].pc = "raised"]
    /\ UNCHANGED <<now, cacheVars, netVars, isOnline, probing, pendingAnswers,
                   lastSync, offlineStats, enq, serial, ghostVars, progressVars>>

\* The caller of syncPendingAnswers() receives the rejection.
SyncRaised(c) ==
    /\ sync[c].pc = "raised"
    /\ sync' = [sync EXCEPT ![c] = IdleSync]
    /\ UNCHANGED <<now, cacheVars, netVars, isOnline, syncInProgress, probing, pendingAnswers,
                   lastSync, offlineStats, enq, serial, ghostVars, progressVars>>

\* queueAnswer: AsyncStorage.setItem(PENDING_ANSWERS, existing) rejects; the
\* await is in no try block and the call's promise rejects.
QueueWriteFailed(q) ==
    /\ enq[q].pc = "write"
    /\ enq' = [enq EXCEPT ![q].pc = "raised"]
    /\ UNCHANGED <<now, cacheVars, netVars, isOnline, syncInProgress, probing, pendingAnswers,
                   lastSync, offlineStats, sync, serial, ghostVars, progressVars>>

\* The caller of queueAnswer() receives the rejection.
QueueRaised(q) ==
    /\ enq[q].pc = "raised"
    /\ enq' = [enq EXCEPT ![q] = IdleEnq]
    /\ UNCHANGED <<now, cacheVars, netVars, isOnline, syncInProgress, probing, pendingAnswers,
                   lastSync, offlineStats, sync, serial, ghostVars, progressVars>>

(* ------------------------------------------------------------------ *)
(* Process restart                                                    *)
(* ------------------------------------------------------------------ *)

\* The process stops and the app is started again: every call in flight is
\* gone with its locals, `new OfflineService()` runs (isOnline = true,
\* syncInProgress = false, the listener is subscribed and gets the current
\* state), and AsyncStorage holds what had been written.
Restart ==
    /\ sync' = [c \in SyncCalls |-> IdleSync]
    /\ enq' = [q \in QueueCalls |-> IdleEnq]
    /\ fill' = IdleFill
    /\ take' = [t \in TakeCalls |-> IdleTake]
    /\ sweep' = IdleSweep
    /\ counting' = IdleCount
    /\ isOnline' = TRUE
    /\ syncInProgress' = FALSE
    /\ probing' = FALSE
    /\ evq' = <<net>>
    /\ lastEv' = [prev |-> None, cur |-> None, fired |-> FALSE]
    /\ prog' = [p \in ProgressCalls |-> IdleProgress]
    /\ clear' = IdleClear
    /\ UNCHANGED <<cachedQuestions, fetched, taken, now, net, nev, pendingAnswers, lastSync,
                   offlineStats, serial, ghostVars, userProgress>>

(* ------------------------------------------------------------------ *)
(* Question cache                                                     *)
(* ------------------------------------------------------------------ *)

\* ValidAt with the comparison including the instant of expiry.
ValidUntil(q, t) == q.expires_at >= t

\* new Date(q.expires_at) > now
ValidAt(q, t) == q.expires_at > t

\* getCachedQuestions(topic_slug?) on the stored list, read at time t
GetCachedQuestions(stored, t, topic) ==
    LET unexpired == SelectSeq(stored, LAMBDA q : ValidAt(q, t))
    IN  IF topic # NoTopic
        THEN SelectSeq(unexpired, LAMBDA q : q.topic_slug = topic)
        ELSE unexpired

\* Date.now() advances.
Tick ==
    /\ now < MaxTime
    /\ now' = now + 1
    /\ UNCHANGED <<cacheVars, netVars, isOnline, queueVars, progressVars>>

\* cacheQuestions(topic_slug, count) is called; checkOnline() suspends.
CacheQuestions(topic, count) ==
    /\ fill.pc = "idle"
    /\ fill' = [IdleFill EXCEPT !.pc = "probe", !.topic_slug = topic, !.count = count]
    /\ UNCHANGED <<cachedQuestions, take, sweep, fetched, taken, now, netVars,
                   isOnline, queueVars, counting, progressVars>>

\* FillProbed deciding on the stored flag instead of the probe's answer.
FillProbedStale ==
    /\ fill.pc = "probe"
    /\ isOnline' = Connected(net)
    /\ fill' = IF ~isOnline
               THEN [fill EXCEPT !.pc = "done", !.ret = 0]
               ELSE [fill EXCEPT !.pc = IF fill.count = 0 THEN "read" ELSE "fetch",
                                 !.at = now, !.expires = now + TTL]
    /\ UNCHANGED <<cachedQuestions, take, sweep, fetched, taken, now, netVars, queueVars, counting, progressVars>>

\* FillProbed with `expires` one clock unit later than now + 24 hours.
FillProbedExpiresLate ==
    /\ fill.pc = "probe"
    /\ isOnline' = Connected(net)
    /\ fill' = IF ~isOnline'
               THEN [fill EXCEPT !.pc = "done", !.ret = 0]
               ELSE [fill EXCEPT !.pc = IF fill.count = 0 THEN "read" ELSE "fetch",
                                 !.at = now, !.expires = now + TTL + 1]
    /\ UNCHANGED <<cachedQuestions, take, sweep, fetched, taken, now, netVars, queueVars, counting, progressVars>>

\* checkOnline() resolves: return 0 when offline; else `now`, `expires` and
\* the first generateQuestion.
FillProbed ==
    /\ fill.pc = "probe"
    /\ isOnline' = Connected(net)
    /\ fill' = IF ~isOnline'
               THEN [fill EXCEPT !.pc = "done", !.ret = 0]
               ELSE [fill EXCEPT !.pc = IF fill.count = 0 THEN "read" ELSE "fetch",
                                 !.at = now, !.expires = now + TTL]
    /\ UNCHANGED <<cachedQuestions, take, sweep, fetched, taken, now, netVars, queueVars, counting, progressVars>>

\* FillFetched leaving the loop at the first failed generateQuestion.
FillFetchedAborts ==
    /\ fill.pc = "fetch"
    /\ LET pcNext == IF fill.i + 1 = fill.count THEN "read" ELSE "fetch"
       IN  \/ /\ fetched < MaxFetches
              /\ fetched' = fetched + 1
              /\ fill' = [fill EXCEPT
                            !.cached = Append(@, CachedQuestion(now, fill.i, fill.topic_slug,
                                                  fetched + 1, fill.at, fill.expires)),
                            !.i = @ + 1, !.pc = pcNext]
           \/ /\ fill' = [fill EXCEPT !.i = @ + 1, !.pc = "read"]
              /\ UNCHANGED fetched
    /\ UNCHANGED <<cachedQuestions, take, sweep, taken, now, netVars, isOnline, queueVars, counting, progressVars>>

\* generateQuestion settles: a question is pushed, or the error is swallowed;
\* after the last one getCachedQuestions() suspends on getItem.
FillFetched ==
    /\ fill.pc = "fetch"
    /\ LET pcNext == IF fill.i + 1 = fill.count THEN "read" ELSE "fetch"
       IN  \/ /\ fetched < MaxFetches
              /\ fetched' = fetched + 1
              /\ fill' = [fill EXCEPT
                            !.cached = Append(@, CachedQuestion(now, fill.i, fill.topic_slug,
                                                  fetched + 1, fill.at, fill.expires)),
                            !.i = @ + 1, !.pc = pcNext]
           \/ /\ fill' = [fill EXCEPT !.i = @ + 1, !.pc = pcNext]
              /\ UNCHANGED fetched
    /\ UNCHANGED <<cachedQuestions, take, sweep, taken, now, netVars, isOnline, queueVars, counting, progressVars>>

\* FillRead filtering the stored questions only, not the fetched ones.
FillReadKeepsFetched ==
    /\ fill.pc = "read"
    /\ LET existing == GetCachedQuestions(cachedQuestions, now, NoTopic)
       IN  fill' = [fill EXCEPT !.valid = existing \o fill.cached, !.pc = "write"]
    /\ UNCHANGED <<cachedQuestions, take, sweep, fetched, taken, now, netVars,
                   isOnline, queueVars, counting, progressVars>>

\* getCachedQuestions() resolves: merge, drop the expired, issue setItem.
FillRead ==
    /\ fill.pc = "read"
    /\ LET existing == GetCachedQuestions(cachedQuestions, now, NoTopic)
           merged == existing \o fill.cached
       IN  fill' = [fill EXCEPT !.valid = SelectSeq(merged, LAMBDA q : ValidAt(q, now)),
                                !.pc = "write"]
    /\ UNCHANGED <<cachedQuestions, take, sweep, fetched, taken, now, netVars,
                   isOnline, queueVars, counting, progressVars>>

\* setItem(CACHED_QUESTIONS, valid) takes effect; return cached.length.
FillWrite ==
    /\ fill.pc = "write"
    /\ cachedQuestions' = fill.valid
    /\ fill' = [fill EXCEPT !.pc = "done", !.ret = Len(fill.cached)]
    /\ UNCHANGED <<take, sweep, fetched, taken, now, netVars, isOnline, queueVars, counting, progressVars>>

\* The caller receives the number cached.
FillReturn ==
    /\ fill.pc = "done"
    /\ fill' = IdleFill
    /\ UNCHANGED <<cachedQuestions, take, sweep, fetched, taken, now, netVars,
                   isOnline, queueVars, counting, progressVars>>

\* getOfflineQuestion(topic_slug) is called; getCachedQuestions(topic_slug)
\* suspends on getItem.
GetOfflineQuestion(t, topic) ==
    /\ FreeTake(t)
    /\ take' = [take EXCEPT ![t] = [IdleTake EXCEPT !.pc = "read1", !.topic_slug = topic,
                                                   !.calledAt = now]]
    /\ UNCHANGED <<cachedQuestions, fill, sweep, fetched, taken, now, netVars,
                   isOnline, queueVars, counting, progressVars>>

\* The topic's questions are read: return null when there is none, else take
\* the first and read the whole cache.
TakeFirst(t) ==
    /\ take[t].pc = "read1"
    /\ LET questions == GetCachedQuestions(cachedQuestions, now, take[t].topic_slug)
       IN  take' = IF Len(questions) = 0
                   THEN [take EXCEPT ![t].pc = "done", ![t].ret = Null]
                   ELSE [take EXCEPT ![t].pc = "read2", ![t].first = questions[1]]
    /\ UNCHANGED <<cachedQuestions, fill, sweep, fetched, taken, now, netVars,
                   isOnline, queueVars, counting, progressVars>>

\* The whole cache is read: drop the entries with first.id, issue setItem.
TakeRest(t) ==
    /\ take[t].pc = "read2"
    /\ LET allQuestions == GetCachedQuestions(cachedQuestions, now, NoTopic)
       IN  take' = [take EXCEPT
                      ![t].updated = SelectSeq(allQuestions,
                                               LAMBDA q : q.id # take[t].first.id),
                      ![t].pc = "write"]
    /\ UNCHANGED <<cachedQuestions, fill, sweep, fetched, taken, now, netVars,
                   isOnline, queueVars, counting, progressVars>>

\* The app's record of a question it was given.
Given(tk, n) ==
    IF n \in DOMAIN tk
    THEN [tk EXCEPT ![n] = IF @ < 2 THEN @ + 1 ELSE @]
    ELSE tk @@ (n :> 1)

\* setItem(CACHED_QUESTIONS, updated) takes effect; return first.question.
TakeWrite(t) ==
    /\ take[t].pc = "write"
    /\ cachedQuestions' = take[t].updated
    /\ take' = [take EXCEPT ![t].pc = "done", ![t].ret = take[t].first.question]
    /\ taken' = Given(taken, take[t].first.question)
    /\ UNCHANGED <<fill, sweep, fetched, now, netVars, isOnline, queueVars, counting, progressVars>>

\* The caller receives the question or null.
TakeReturn(t) ==
    /\ take[t].pc = "done"
    /\ take' = [take EXCEPT ![t] = IdleTake]
    /\ UNCHANGED <<cachedQuestions, fill, sweep, fetched, taken, now, netVars,
                   isOnline, queueVars, counting, progressVars>>

\* getCacheCount(topic_slug?) is called; getCachedQuestions(topic_slug)
\* suspends on getItem.
GetCacheCount(topic) ==
    /\ counting.pc = "idle"
    /\ counting' = [IdleCount EXCEPT !.pc = "read", !.topic_slug = topic]
    /\ UNCHANGED <<cachedQuestions, fill, take, sweep, fetched, taken, now, netVars,
                   isOnline, queueVars, progressVars>>

\* CountRead counting every question of the topic, expired or not.
CountReadAll ==
    /\ counting.pc = "read"
    /\ counting' = [counting EXCEPT
                      !.ret = Len(SelectSeq(cachedQuestions,
                                            LAMBDA q : counting.topic_slug = NoTopic
                                                       \/ q.topic_slug = counting.topic_slug)),
                      !.pc = "done"]
    /\ UNCHANGED <<cachedQuestions, fill, take, sweep, fetched, taken, now, netVars,
                   isOnline, queueVars, progressVars>>

\* getCachedQuestions(topic_slug) resolves; return questions.length.
CountRead ==
    /\ counting.pc = "read"
    /\ counting' = [counting EXCEPT
                      !.ret = Len(GetCachedQuestions(cachedQuestions, now, counting.topic_slug)),
                      !.pc = "done"]
    /\ UNCHANGED <<cachedQuestions, fill, take, sweep, fetched, taken, now, netVars,
                   isOnline, queueVars, progressVars>>

\* The caller receives the count.
CountReturn ==
    /\ counting.pc = "done"
    /\ counting' = IdleCount
    /\ UNCHANGED <<cachedQuestions, fill, take, sweep, fetched, taken, now, netVars,
                   isOnline, queueVars, progressVars>>

\* clearExpiredCache() is called; getCachedQuestions() suspends on getItem.
ClearExpiredCache ==
    /\ sweep.pc = "idle"
    /\ sweep' = [IdleSweep EXCEPT !.pc = "read", !.calledAt = now]
    /\ UNCHANGED <<cachedQuestions, fill, take, fetched, taken, now, netVars,
                   isOnline, queueVars, counting, progressVars>>

\* The caller of clearExpiredCache() gets the number removed and calls
\* clearExpiredCache() again at once.
ClearExpiredCacheAgain ==
    /\ sweep.pc = "done"
    /\ sweep' = [IdleSweep EXCEPT !.pc = "read", !.calledAt = now,
                                  !.prior = <<[at |-> sweep.calledAt, left |-> cachedQuestions,
                                               removed |-> sweep.removed]>>]
    /\ UNCHANGED <<cachedQuestions, fill, take, fetched, taken, now, netVars,
                   isOnline, queueVars, counting, progressVars>>

\* SweepRead dropping the oldest question whatever its expiry.
SweepReadDropsOldest ==
    /\ sweep.pc = "read"
    /\ LET questions == GetCachedQuestions(cachedQuestions, now, NoTopic)
           valid == IF questions = << >> THEN << >> ELSE Tail(questions)
       IN  sweep' = [sweep EXCEPT !.valid = valid,
                                  !.removed = Len(questions) - Len(valid),
                                  !.pc = "write"]
    /\ UNCHANGED <<cachedQuestions, fill, take, fetched, taken, now, netVars,
                   isOnline, queueVars, counting, progressVars>>

\* getCachedQuestions() resolves: filter again, count the removed, issue setItem.
SweepRead ==
    /\ sweep.pc = "read"
    /\ LET questions == GetCachedQuestions(cachedQuestions, now, NoTopic)
           valid == SelectSeq(questions, LAMBDA q : ValidAt(q, now))
       IN  sweep' = [sweep EXCEPT !.valid = valid,
                                  !.removed = Len(questions) - Len(valid),
                                  !.pc = "write"]
    /\ UNCHANGED <<cachedQuestions, fill, take, fetched, taken, now, netVars,
                   isOnline, queueVars, counting, progressVars>>

\* setItem(CACHED_QUESTIONS, valid) takes effect; return removed.
SweepWrite ==
    /\ sweep.pc = "write"
    /\ cachedQuestions' = sweep.valid
    /\ sweep' = [sweep EXCEPT !.pc = "done"]
    /\ UNCHANGED <<fill, take, fetched, taken, now, netVars, isOnline, queueVars, counting, progressVars>>

\* The caller receives the number removed.
SweepReturn ==
    /\ sweep.pc = "done"
    /\ sweep' = IdleSweep
    /\ UNCHANGED <<cachedQuestions, fill, take, fetched, taken, now, netVars,
                   isOnline, queueVars, counting, progressVars>>

(* ------------------------------------------------------------------ *)
(* Progress storage                                                   *)
(* ------------------------------------------------------------------ *)

\* SaveProgress storing the progress as given, last_updated included.
SaveProgressKeepsStamp(p, progress) ==
    /\ FreeProgress(p)
    /\ prog' = [prog EXCEPT ![p] = [IdleProgress EXCEPT
                                      !.pc = "write", !.op = "save",
                                      !.value = <<progress>>]]
    /\ UNCHANGED <<cacheVars, now, netVars, isOnline, queueVars, userProgress, clear>>

\* saveProgress(progress) is called: { ...progress, last_updated: new Date() }
\* is built and setItem is issued.
SaveProgress(p, progress) ==
    /\ FreeProgress(p)
    /\ prog' = [prog EXCEPT ![p] = [IdleProgress EXCEPT
                                      !.pc = "write", !.op = "save",
                                      !.value = <<[progress EXCEPT !.last_updated = now]>>]]
    /\ UNCHANGED <<cacheVars, now, netVars, isOnline, queueVars, userProgress, clear>>

\* setItem(USER_PROGRESS, ...) takes effect; saveProgress (and an
\* updateLocalMastery awaiting it) returns.
ProgressWrite(p) ==
    /\ prog[p].pc = "write"
    /\ userProgress' = prog[p].value
    /\ prog' = [prog EXCEPT ![p].pc = "done"]
    /\ UNCHANGED <<cacheVars, now, netVars, isOnline, queueVars, clear>>

\* setItem(USER_PROGRESS, ...) rejects: the call rejects.
ProgressWriteFailed(p) ==
    /\ prog[p].pc = "write"
    /\ prog' = [prog EXCEPT ![p].pc = "raised"]
    /\ UNCHANGED <<cacheVars, now, netVars, isOnline, queueVars, userProgress, clear>>

\* getProgress() is called; getItem suspends.
GetProgress(p) ==
    /\ FreeProgress(p)
    /\ prog' = [prog EXCEPT ![p] = [IdleProgress EXCEPT !.pc = "read", !.op = "get"]]
    /\ UNCHANGED <<cacheVars, now, netVars, isOnline, queueVars, userProgress, clear>>

\* getItem resolves: return data ? JSON.parse(data) : null.
ProgressRead(p) ==
    /\ prog[p].pc = "read"
    /\ prog[p].op = "get"
    /\ prog' = [prog EXCEPT ![p].ret = userProgress, ![p].pc = "done"]
    /\ UNCHANGED <<cacheVars, now, netVars, isOnline, queueVars, userProgress, clear>>

\* getItem rejects: getProgress logs and returns null (to its caller, or to
\* updateLocalMastery, which then does nothing).
ProgressReadFailed(p) ==
    /\ prog[p].pc = "read"
    /\ prog' = [prog EXCEPT ![p].ret = << >>, ![p].pc = "done"]
    /\ UNCHANGED <<cacheVars, now, netVars, isOnline, queueVars, userProgress, clear>>

\* updateLocalMastery(topic_slug, mastery) is called; getProgress() suspends.
UpdateLocalMastery(p, topic, mastery) ==
    /\ FreeProgress(p)
    /\ prog' = [prog EXCEPT ![p] = [IdleProgress EXCEPT !.pc = "read", !.op = "mastery",
                                                        !.topic_slug = topic,
                                                        !.mastery = mastery]]
    /\ UNCHANGED <<cacheVars, now, netVars, isOnline, queueVars, userProgress, clear>>

\* MasteryRead replacing topic_mastery by the one entry.
MasteryReadReplaces(p) ==
    /\ prog[p].pc = "read"
    /\ prog[p].op = "mastery"
    /\ prog' = IF userProgress = << >>
               THEN [prog EXCEPT ![p].pc = "done"]
               ELSE [prog EXCEPT
                       ![p].value =
                           <<[userProgress[1] EXCEPT
                                !.topic_mastery = (prog[p].topic_slug :> prog[p].mastery),
                                !.last_updated = now]>>,
                       ![p].pc = "write"]
    /\ UNCHANGED <<cacheVars, now, netVars, isOnline, queueVars, userProgress, clear>>

\* getProgress() resolves: nothing to do when it is null; else
\* progress.topic_mastery[topic_slug] = mastery and saveProgress(progress),
\* which stamps last_updated and issues setItem.
MasteryRead(p) ==
    /\ prog[p].pc = "read"
    /\ prog[p].op = "mastery"
    /\ prog' = IF userProgress = << >>
               THEN [prog EXCEPT ![p].pc = "done"]
               ELSE [prog EXCEPT
                       ![p].value =
                           <<[userProgress[1] EXCEPT
                                !.topic_mastery = (prog[p].topic_slug :> prog[p].mastery) @@ @,
                                !.last_updated = now]>>,
                       ![p].pc = "write"]
    /\ UNCHANGED <<cacheVars, now, netVars, isOnline, queueVars, userProgress, clear>>

\* The caller of a progress operation gets its result (or its rejection).
ProgressReturn(p) ==
    /\ prog[p].pc \in {"done", "raised"}
    /\ prog' = [prog EXCEPT ![p] = IdleProgress]
    /\ UNCHANGED <<cacheVars, now, netVars, isOnline, queueVars, userProgress, clear>>

(* ------------------------------------------------------------------ *)
(* clearAllData                                                       *)
(* ------------------------------------------------------------------ *)

\* clearAllData() is called: the four removeItem calls are issued together.
ClearAllData ==
    /\ clear.pc = "idle"
    /\ clear' = [pc |-> "removing", left |-> ClearedKeys]
    /\ UNCHANGED <<cacheVars, now, netVars, isOnline, queueVars, userProgress, prog>>

\* One removeItem takes effect; with the last one Promise.all resolves.
ClearRemoved(key) ==
    /\ clear.pc = "removing"
    /\ key \in clear.left
    /\ clear' = [pc |-> IF clear.left = {key} THEN "done" ELSE "removing",
                 left |-> clear.left \ {key}]
    /\ cachedQuestions' = IF key = "CACHED_QUESTIONS" THEN << >> ELSE cachedQuestions
    /\ pendingAnswers' = IF key = "PENDING_ANSWERS" THEN << >> ELSE pendingAnswers
    /\ userProgress' = IF key = "USER_PROGRESS" THEN << >> ELSE userProgress
    /\ offlineStats' = IF key = "OFFLINE_STATS" THEN 0 ELSE offlineStats
    /\ UNCHANGED <<fill, take, sweep, counting, fetched, taken, now, netVars, isOnline,
                   syncInProgress, probing, lastSync, sync, enq, serial, ghostVars, prog>>

\* The caller of clearAllData() is resumed.
ClearReturn ==
    /\ clear.pc = "done"
    /\ clear' = IdleClear
    /\ UNCHANGED <<cacheVars, now, netVars, isOnline, queueVars, userProgress, prog>>

(* ------------------------------------------------------------------ *)
(* Specifications                                                     *)
(* ------------------------------------------------------------------ *)

\* queueAnswer called with no other queueAnswer in flight (an awaiting caller).
QueueAnswerAwaited(q) ==
    /\ \A d \in QueueCalls : enq[d].pc = "idle"
    /\ QueueAnswer(q)

\* syncPendingAnswers called with no other syncPendingAnswers in flight.
SyncCallAlone(c) ==
    /\ \A d \in SyncCalls : sync[d].pc = "idle"
    /\ SyncCall(c)

\* Reconciliation: overlapping syncPendingAnswers calls against queueAnswer
\* calls made one after the other, on a connection that is up or down.
Next ==
    \/ \E c \in SyncCalls :
         \/ SyncCall(c)
         \/ SyncProbed(c)
         \/ SyncRead(c)
         \/ SyncSubmit(c)
         \/ SyncWrite(c)
         \/ SyncStamp(c)
         \/ SyncReturn(c)
    \/ \E q \in QueueCalls :
         \/ QueueAnswerAwaited(q)
         \/ QueueRead(q)
         \/ QueueWrite(q)
         \/ QueueStatsRead(q)
         \/ QueueStatsWrite(q)

Spec == Init /\ [][Next]_vars

\* The result queue alone: overlapping queueAnswer calls.
QueueNext ==
    \E q \in QueueCalls :
       \/ QueueAnswer(q)
       \/ QueueRead(q)
       \/ QueueWrite(q)
       \/ QueueStatsRead(q)
       \/ QueueStatsWrite(q)

QueueSpec == Init /\ [][QueueNext]_vars

\* The network state monitor: connectivity events, probes and the
\* syncPendingAnswers calls they start, on an empty queue.
NetNext ==
    \/ NetChange
    \/ NetworkListener
    \/ CheckOnlineCall
    \/ CheckOnline
    \/ \E c \in SyncCalls :
         \/ SyncCall(c)
         \/ SyncProbed(c)
         \/ SyncRead(c)
         \/ SyncWrite(c)
         \/ SyncStamp(c)
         \/ SyncReturn(c)

NetSpec == Init /\ [][NetNext]_vars

\* One syncPendingAnswers at a time over a persisted queue, nothing else
\* touching the queue.
DrainNext ==
    \E c \in SyncCalls :
       \/ SyncCallAlone(c)
       \/ SyncProbed(c)
       \/ SyncRead(c)
       \/ SyncSubmit(c)
       \/ SyncWrite(c)
       \/ SyncStamp(c)
       \/ SyncReturn(c)

DrainSpec == StoredInit /\ [][DrainNext]_vars

\* No cache operation is in flight.
CacheIdle ==
    /\ fill.pc = "idle"
    /\ sweep.pc = "idle"
    /\ \A t \in TakeCalls : take[t].pc = "idle"

\* The cache operations called one after the other (each awaited).
CacheQuestionsAlone(topic, count) == CacheIdle /\ CacheQuestions(topic, count)

GetOfflineQuestionAlone(t, topic) == CacheIdle /\ GetOfflineQuestion(t, topic)

ClearExpiredCacheAlone == CacheIdle /\ ClearExpiredCache

\* The question cache over time: cacheQuestions, getOfflineQuestion and
\* clearExpiredCache called one after the other while the clock runs.
CacheNext ==
    \/ Tick
    \/ \E topic \in Topics, count \in 1..MaxCount : CacheQuestionsAlone(topic, count)
    \/ FillProbed
    \/ FillFetched
    \/ FillRead
    \/ FillWrite
    \/ FillReturn
    \/ \E t \in TakeCalls :
         \/ \E topic \in Topics : GetOfflineQuestionAlone(t, topic)
         \/ TakeFirst(t)
         \/ TakeRest(t)
         \/ TakeWrite(t)
         \/ TakeReturn(t)
    \/ ClearExpiredCacheAlone
    \/ SweepRead
    \/ SweepWrite
    \/ SweepReturn

CacheSpec == Init /\ [][CacheNext]_vars

\* The question cache under overlap: getOfflineQuestion calls overlapping one
\* another and a cacheQuestions call.
TakeNext ==
    \/ \E topic \in Topics, count \in 1..MaxCount : CacheQuestions(topic, count)
    \/ FillProbed
    \/ FillFetched
    \/ FillRead
    \/ FillWrite
    \/ FillReturn
    \/ \E t \in TakeCalls :
         \/ \E topic \in Topics : GetOfflineQuestion(t, topic)
         \/ TakeFirst(t)
         \/ TakeRest(t)
         \/ TakeWrite(t)
         \/ TakeReturn(t)

TakeSpec == Init /\ [][TakeNext]_vars

\* Results were queued while offline; connectivity returns and stays; sync is
\* called again and again; the server fails at most MaxRejects submissions.
LiveInit ==
    \E k \in 1..MaxStored : Constructed(StoredQueue(k)) /\ net = "off"

LiveNext ==
    \/ Reconnect
    \/ NetworkListener
    \/ \E c \in SyncCalls :
         \/ SyncCall(c)
         \/ SyncProbed(c)
         \/ SyncRead(c)
         \/ SyncSubmitEventually(c)
         \/ SyncWrite(c)
         \/ SyncStamp(c)
         \/ SyncReturn(c)

\* The event loop runs every continuation that is ready, the platform
\* delivers its events, and the app keeps calling syncPendingAnswers.
LiveFairness ==
    /\ WF_vars(Reconnect)
    /\ WF_vars(NetworkListener)
    /\ \A c \in SyncCalls :
         /\ WF_vars(SyncCall(c))
         /\ WF_vars(SyncProbed(c))
         /\ WF_vars(SyncRead(c))
         /\ WF_vars(SyncSubmitEventually(c))
         /\ WF_vars(SyncWrite(c))
         /\ WF_vars(SyncStamp(c))
         /\ WF_vars(SyncReturn(c))

LiveSpec == LiveInit /\ [][LiveNext]_vars /\ LiveFairness

\* The guards of syncPendingAnswers: calls made by the app and by the
\* listener over a persisted queue while connectivity changes and probes run.
GuardNext ==
    \/ NetChange
    \/ NetworkListener
    \/ \E c \in SyncCalls :
         \/ SyncCall(c)
         \/ SyncProbed(c)
         \/ SyncRead(c)
         \/ SyncSubmit(c)
         \/ SyncWrite(c)
         \/ SyncStamp(c)
         \/ SyncReturn(c)

GuardInit == \E k \in 0..MaxWaiting : Constructed(StoredQueue(k))

GuardSpec == GuardInit /\ [][GuardNext]_vars

\* A drain interrupted: one syncPendingAnswers at a time over a persisted
\* queue, the process stopping and restarting at any point.
CrashNext ==
    \/ DrainNext
    \/ Restart

CrashSpec == StoredInit /\ [][CrashNext]_vars

\* The expiry sweep: cacheQuestions and clearExpiredCache called one after
\* the other while the clock runs, clearExpiredCache also twice in a row.
SweepNext ==
    \/ Tick
    \/ \E topic \in Topics, count \in 1..MaxCount : CacheQuestionsAlone(topic, count)
    \/ FillProbed
    \/ FillFetched
    \/ FillRead
    \/ FillWrite
    \/ FillReturn
    \/ ClearExpiredCacheAlone
    \/ ClearExpiredCacheAgain
    \/ SweepRead
    \/ SweepWrite
    \/ SweepReturn

SweepSpec == Init /\ [][SweepNext]_vars

\* Counting the cache: getCacheCount, for a topic or for all, and
\* cacheQuestions called one after the other while the clock runs.
CountNext ==
    \/ Tick
    \/ \E topic \in Topics, count \in 1..MaxCount :
         counting.pc = "idle" /\ CacheQuestions(topic, count)
    \/ FillProbed
    \/ FillFetched
    \/ FillRead
    \/ FillWrite
    \/ FillReturn
    \/ \E topic \in Topics \cup {NoTopic} : fill.pc = "idle" /\ GetCacheCount(topic)
    \/ CountRead
    \/ CountReturn

CountSpec == Init /\ [][CountNext]_vars

\* Filling the cache while connectivity changes: cacheQuestions calls,
\* direct checkOnline() probes and the platform going on and off.
FillNext ==
    \/ NetChange
    \/ CheckOnlineCall
    \/ CheckOnline
    \/ \E topic \in Topics, count \in 1..MaxCount : CacheQuestions(topic, count)
    \/ FillProbed
    \/ FillFetched
    \/ FillRead
    \/ FillWrite
    \/ FillReturn

FillSpec == Init /\ [][FillNext]_vars

\* Identifiers of queued results: queueAnswer calls, overlapping or not,
\* while the clock runs.
IdNext ==
    \/ Tick
    \/ QueueNext

IdSpec == Init /\ [][IdNext]_vars

\* Storage failures under overlap: syncPendingAnswers calls over a
\* persisted queue, every read and write of the queue and of the stamp
\* failing or not.
StorageNext ==
    \E c \in SyncCalls :
       \/ SyncCall(c)
       \/ SyncProbed(c)
       \/ SyncRead(c)
       \/ SyncReadFailed(c)
       \/ SyncSubmit(c)
       \/ SyncWrite(c)
       \/ SyncWriteFailed(c)
       \/ SyncStamp(c)
       \/ SyncStampFailed(c)
       \/ SyncReturn(c)
       \/ SyncRaised(c)

StorageSpec == GuardInit /\ [][StorageNext]_vars

\* The last-sync stamp: syncPendingAnswers calls, overlapping or not, over a
\* persisted queue while the clock runs.
StampNext ==
    \/ Tick
    \/ \E c \in SyncCalls :
         \/ SyncCall(c)
         \/ SyncProbed(c)
         \/ SyncRead(c)
         \/ SyncSubmit(c)
         \/ SyncWrite(c)
         \/ SyncStamp(c)
         \/ SyncReturn(c)

StampSpec == GuardInit /\ [][StampNext]_vars

\* Expiry of cached questions: cacheQuestions, getOfflineQuestion,
\* getCacheCount and clearExpiredCache called one after the other while the
\* clock runs.
ExpiryNext ==
    \/ Tick
    \/ \E topic \in Topics, count \in 1..MaxCount :
         counting.pc = "idle" /\ CacheQuestionsAlone(topic, count)
    \/ FillProbed
    \/ FillFetched
    \/ FillRead
    \/ FillWrite
    \/ FillReturn
    \/ \E topic \in Topics : counting.pc = "idle" /\ GetOfflineQuestionAlone(1, topic)
    \/ TakeFirst(1)
    \/ TakeRest(1)
    \/ TakeWrite(1)
    \/ TakeReturn(1)
    \/ \E topic \in Topics \cup {NoTopic} : CacheIdle /\ GetCacheCount(topic)
    \/ CountRead
    \/ CountReturn
    \/ counting.pc = "idle" /\ ClearExpiredCacheAlone
    \/ SweepRead
    \/ SweepWrite
    \/ SweepReturn

ExpirySpec == Init /\ [][ExpiryNext]_vars

\* No operation on the result queue is in flight.
QueueIdle ==
    /\ \A c \in SyncCalls : sync[c].pc = "idle"
    /\ \A q \in QueueCalls : enq[q].pc = "idle"

\* No operation of the service is in flight.
AllIdle ==
    /\ QueueIdle
    /\ CacheIdle
    /\ counting.pc = "idle"
    /\ \A p \in ProgressCalls : prog[p].pc = "idle"
    /\ clear.pc = "idle"

\* The three stores side by side: syncPendingAnswers over a persisted queue
\* (GuardInit),
\* the cache operations and the progress operations, called one after the
\* other (cacheQuestions for one question at a time).
OwnershipNext ==
    \/ \E c \in SyncCalls :
         \/ AllIdle /\ SyncCall(c)
         \/ SyncProbed(c)
         \/ SyncRead(c)
         \/ SyncSubmit(c)
         \/ SyncWrite(c)
         \/ SyncStamp(c)
         \/ SyncReturn(c)
    \/ \E topic \in Topics : AllIdle /\ CacheQuestions(topic, 1)
    \/ FillProbed
    \/ FillFetched
    \/ FillRead
    \/ FillWrite
    \/ FillReturn
    \/ \E t \in TakeCalls :
         \/ \E topic \in Topics : AllIdle /\ GetOfflineQuestion(t, topic)
         \/ TakeFirst(t)
         \/ TakeRest(t)
         \/ TakeWrite(t)
         \/ TakeReturn(t)
    \/ \E topic \in Topics \cup {NoTopic} : AllIdle /\ GetCacheCount(topic)
    \/ CountRead
    \/ CountReturn
    \/ AllIdle /\ ClearExpiredCache
    \/ SweepRead
    \/ SweepWrite
    \/ SweepReturn
    \/ \E p \in ProgressCalls :
         \/ \E progress \in Progresses : AllIdle /\ SaveProgress(p, progress)
         \/ AllIdle /\ GetProgress(p)
         \/ \E topic \in Topics, mastery \in Masteries :
              AllIdle /\ UpdateLocalMastery(p, topic, mastery)
         \/ ProgressRead(p)
         \/ MasteryRead(p)
         \/ ProgressWrite(p)
         \/ ProgressReturn(p)

OwnershipSpec == GuardInit /\ [][OwnershipNext]_vars

\* No progress operation is in flight.
ProgressIdle == \A p \in ProgressCalls : prog[p].pc = "idle"

\* The progress store over time: saveProgress, getProgress and
\* updateLocalMastery called one after the other, and clearAllData at any
\* point, while the clock runs.
ProgressNext ==
    \/ Tick
    \/ \E p \in ProgressCalls :
         \/ \E progress \in Progresses : ProgressIdle /\ SaveProgress(p, progress)
         \/ ProgressIdle /\ GetProgress(p)
         \/ \E topic \in Topics, mastery \in Masteries :
              ProgressIdle /\ UpdateLocalMastery(p, topic, mastery)
         \/ ProgressRead(p)
         \/ MasteryRead(p)
         \/ ProgressWrite(p)
         \/ ProgressReturn(p)
    \/ ClearAllData
    \/ \E key \in ClearedKeys : ClearRemoved(key)
    \/ ClearReturn

ProgressSpec == Init /\ [][ProgressNext]_vars

\* Mastery updates under overlap and storage failures: saveProgress,
\* getProgress and updateLocalMastery calls overlapping one another while the
\* clock runs, each storage read or write failing or not.
MasteryNext ==
    \/ Tick
    \/ \E p \in ProgressCalls :
         \/ \E progress \in Progresses : SaveProgress(p, progress)
         \/ GetProgress(p)
         \/ \E topic \in Topics, mastery \in Masteries : UpdateLocalMastery(p, topic, mastery)
         \/ ProgressRead(p)
         \/ ProgressReadFailed(p)
         \/ MasteryRead(p)
         \/ ProgressWrite(p)
         \/ ProgressWriteFailed(p)
         \/ ProgressReturn(p)

MasterySpec == Init /\ [][MasteryNext]_vars

\* Storage read failures: queueAnswer and syncPendingAnswers called one
\* after the other over a persisted queue, each read of the queue failing or not.
FaultNext ==
    \/ \E c \in SyncCalls :
         \/ QueueIdle /\ SyncCall(c)
         \/ SyncProbed(c)
         \/ SyncRead(c)
         \/ SyncReadFailed(c)
         \/ SyncSubmit(c)
         \/ SyncWrite(c)
         \/ SyncStamp(c)
         \/ SyncReturn(c)
    \/ \E q \in QueueCalls :
         \/ QueueIdle /\ QueueAnswer(q)
         \/ QueueRead(q)
         \/ QueueReadFailed(q)
         \/ QueueWrite(q)
         \/ QueueStatsRead(q)
         \/ QueueStatsWrite(q)

FaultSpec == StoredInit /\ [][FaultNext]_vars

\* Storage failures, reads and writes: queueAnswer and syncPendingAnswers
\* called one after the other over a persisted queue.
RaiseNext ==
    \/ FaultNext
    \/ \E c \in SyncCalls :
         \/ SyncWriteFailed(c)
         \/ SyncStampFailed(c)
         \/ SyncRaised(c)
    \/ \E q \in QueueCalls :
         \/ QueueWriteFailed(q)
         \/ QueueRaised(q)

RaiseSpec == StoredInit /\ [][RaiseNext]_vars

(* ------------------------------------------------------------------ *)
(* Properties                                                         *)
(* ------------------------------------------------------------------ *)

\* The persisted queue holds result n.
InQueue(queue, n) == \E i \in 1..Len(queue) : queue[i].question_id = n

\* How often the persisted queue holds result n.
Copies(queue, n) == Cardinality({i \in 1..Len(queue) : queue[i].question_id = n})

\* The entries of `pending`, in order, whose submission (among the first
\* Len(outcomes)) threw.
FailedEntries(pending, outcomes) ==
    LET F[i \in 0..Len(outcomes)] ==
          IF i = 0 THEN << >>
          ELSE IF outcomes[i].thrown THEN Append(F[i - 1], pending[i]) ELSE F[i - 1]
    IN  F[Len(outcomes)]

NThrown(outcomes) == Cardinality({i \in 1..Len(outcomes) : outcomes[i].thrown})

NReturned(outcomes) == Cardinality({i \in 1..Len(outcomes) : ~outcomes[i].thrown})

\* Submissions the server did not accept: it threw, or answered is_correct = false.
NUnaccepted(outcomes) ==
    Cardinality({i \in 1..Len(outcomes) : outcomes[i].thrown \/ ~outcomes[i].is_correct})

SumXp(outcomes) ==
    LET X[i \in 0..Len(outcomes)] ==
          IF i = 0 THEN 0
          ELSE X[i - 1] + (IF outcomes[i].thrown THEN 0 ELSE outcomes[i].xp_earned)
    IN  X[Len(outcomes)]

\* The call passed both guards (it did not return from one of them).
PassedGuards(s) ==
    /\ s.pc \in {"read", "submit", "write", "stamp", "done"}
    /\ s.result.errors # <<ErrInProgress>>
    /\ s.result.errors # <<ErrOffline>>

\* C1: mutual exclusion of drain: of the overlapping syncPendingAnswers
\* calls, at most one is in its submit phase (awaiting validateAnswer) at a time.
C1_MutualExclusion ==
    Cardinality({c \in SyncCalls : sync[c].pc = "submit"}) <= 1

\* C2: no silent loss: every result whose queueAnswer has written the queue
\* and that the server has not yet answered without error is in the
\* persisted queue.
C2_NoSilentLoss ==
    \A n \in written \ DOMAIN accepted : InQueue(pendingAnswers, n)

\* C3: a result queued between a drain's snapshot and its write of the queue
\* is still in the queue once that drain has written it.
C3_QueuedDuringDrainKept ==
    [][\A c \in SyncCalls :
         (sync[c].pc = "write" /\ sync'[c].pc = "stamp")
         => \A n \in sync[c].during : InQueue(pendingAnswers', n)]_vars

\* C4: a drain that passes both guards with no other queue operation leaves
\* the queue equal to its snapshot without the synced entries: the failed
\* entries remain, in their order, and the counts are those of the outcomes.
C4_DrainRemovesExactlySynced ==
    \A c \in SyncCalls :
       LET s == sync[c]
       IN  /\ s.pc \in {"submit", "write"} => pendingAnswers = s.pending
           /\ (PassedGuards(s) /\ s.pc \in {"stamp", "done"})
              => /\ Len(s.outcomes) = Len(s.pending)
                 /\ pendingAnswers = FailedEntries(s.pending, s.outcomes)
                 /\ s.result.synced_answers = NReturned(s.outcomes)
                 /\ s.result.failed_answers = NThrown(s.outcomes)

\* C4's case: R1, R2, R3 queued, R2's submission fails: the queue is [R2],
\* 2 synced, 1 failed.
C4_Witness ==
    \E c \in SyncCalls :
       /\ sync[c].pc = "done"
       /\ sync[c].pending = StoredQueue(3)
       /\ sync[c].outcomes = <<Returned(TRUE, 1), Thrown, Returned(TRUE, 1)>>
       /\ pendingAnswers = <<PendingAnswer(2, 2)>>
       /\ sync[c].result.synced_answers = 2
       /\ sync[c].result.failed_answers = 1

C6_QueueEventuallyEmpty == <>(pendingAnswers = << >>)

\* C6's case: the server failed a submission first, every stored result was
\* accepted in the end, and the queue is empty.
C6_Witness ==
    /\ pendingAnswers = << >>
    /\ rejects > 0
    /\ DOMAIN accepted = 1..MaxStored
    /\ net = "on"

\* C7: at-most-once delivery: getOfflineQuestion returns no cached question
\* more than once.
C7_AtMostOnce == \A n \in DOMAIN taken : taken[n] <= 1

\* C8: the question getOfflineQuestion picks (and returns) had not expired
\* when the call was made: its expires_at is later than the time of the call;
\* so a call made when every question of the topic has expired returns null.
C8_NeverExpired ==
    \A t \in TakeCalls :
       /\ take[t].first # NoQuestion => take[t].first.expires_at > take[t].calledAt
       /\ take[t].ret # Null
          => /\ take[t].first.question = take[t].ret
             /\ take[t].first.expires_at > take[t].calledAt

\* C8's case: every question cached for the topic had expired when
\* getOfflineQuestion was called, and it returned null.
C8_Witness ==
    \E t \in TakeCalls :
       /\ take[t].pc = "done"
       /\ take[t].ret = Null
       /\ Len(cachedQuestions) = MaxFetches
       /\ \A i \in 1..Len(cachedQuestions) :
            /\ cachedQuestions[i].topic_slug = take[t].topic_slug
            /\ cachedQuestions[i].expires_at <= take[t].calledAt

\* C9: once no queueAnswer is between its read and its write of the queue,
\* the queue holds every result written, exactly once.
C9_DurableAppend ==
    (\A q \in QueueCalls : enq[q].pc \notin {"read", "write"})
    => \A n \in written : Copies(pendingAnswers, n) = 1

\* C10: the listener calls syncPendingAnswers for an event exactly when the
\* platform's signal went from not connected to connected with that event.
C10_OncePerTransition ==
    lastEv.cur # None
    => (lastEv.fired <=> (lastEv.prev \in {"off", "unknown"} /\ lastEv.cur = "on"))

\* C11: a failed read of the queue deletes no result: with queueAnswer and
\* syncPendingAnswers called one after the other, every entry the persisted
\* queue held before an operation writes it, and that the server has not
\* answered without error, is in the queue the operation writes.
C11_ReadFailureKeepsResults ==
    [][(pendingAnswers' # pendingAnswers)
       => \A i \in 1..Len(pendingAnswers) :
            pendingAnswers[i].question_id \notin DOMAIN accepted
            => InQueue(pendingAnswers', pendingAnswers[i].question_id)]_vars

\* C12: a syncPendingAnswers call whose probe (NetInfo.fetch inside the
\* call) finds the device offline returns 0 synced, 0 failed, 0 xp and the
\* one error 'Device is offline', has submitted nothing, and its steps leave
\* the queue, the last-sync stamp and the server's record unchanged; the
\* decision is the probe's answer whatever the stored flag was.
C12_OfflineDrainIsNoOp ==
    [][\A c \in SyncCalls :
         /\ (sync[c].pc = "probe" /\ sync'[c].pc # "probe")
            => /\ (net # "on") <=> (sync'[c].result = SyncResult(0, 0, 0, <<ErrOffline>>))
               /\ (net # "on")
                  => /\ sync'[c].pc = "done"
                     /\ sync'[c].outcomes = << >>
                     /\ UNCHANGED <<pendingAnswers, lastSync, accepted, syncInProgress>>
         /\ (sync[c].result.errors = <<ErrOffline>> /\ sync'[c] # sync[c])
            => /\ sync'[c] = IdleSync
               /\ UNCHANGED <<pendingAnswers, lastSync, accepted, syncInProgress>>]_vars

\* C12's case: the queue holds results, the platform is offline, the
\* listener has not run yet (the stored flag was still the constructor's
\* `true` when the call was made), and the call returned 'Device is offline'.
C12_Witness ==
    \E c \in SyncCalls :
       /\ sync[c].pc = "done"
       /\ sync[c].result = SyncResult(0, 0, 0, <<ErrOffline>>)
       /\ nev = 0
       /\ evq = <<"off">>
       /\ pendingAnswers = StoredQueue(MaxWaiting)
       /\ lastSync = << >>
       /\ accepted = << >>

\* C13: a syncPendingAnswers call that finds syncInProgress set returns
\* 0 synced, 0 failed, 0 xp and the one error 'Sync already in progress'; it
\* submits nothing, and neither entering nor returning writes the queue or
\* the last-sync stamp or clears the flag the running call holds.
C13_GuardedCallIsNoOp ==
    [][\A c \in SyncCalls :
         /\ (sync[c].pc = "idle" /\ sync'[c].pc # "idle" /\ syncInProgress)
            => /\ sync'[c] = [IdleSync EXCEPT !.pc = "done",
                                 !.result = SyncResult(0, 0, 0, <<ErrInProgress>>)]
               /\ UNCHANGED <<pendingAnswers, lastSync, accepted, syncInProgress>>
         /\ (sync[c].result.errors = <<ErrInProgress>> /\ sync'[c] # sync[c])
            => /\ sync'[c] = IdleSync
               /\ UNCHANGED <<pendingAnswers, lastSync, accepted, syncInProgress>>]_vars

\* C13's case: a call returned 'Sync already in progress' while another
\* call, holding the flag, is awaiting a submission.
C13_Witness ==
    \E c, d \in SyncCalls :
       /\ sync[c].pc = "done"
       /\ sync[c].result = SyncResult(0, 0, 0, <<ErrInProgress>>)
       /\ sync[d].pc = "submit"
       /\ syncInProgress
       /\ pendingAnswers # << >>

\* C14: across overlapping syncPendingAnswers calls, started by the app or
\* by the listener, the server answers no result without error more than once.
C14_AcceptedAtMostOnce == \A n \in DOMAIN accepted : accepted[n] <= 1

\* C15: syncPendingAnswers submits its snapshot oldest first, one at a time:
\* when the submission of entry idx settles, the entries before it have all
\* settled and none after it has been issued; they were queued earlier; the
\* server's record changes for that entry only, and the next entry is idx + 1.
C15_SubmitsInOrder ==
    [][\A c \in SyncCalls :
         (sync[c].pc = "submit" /\ sync'[c] # sync[c])
         => LET s == sync[c]
                answer == s.pending[s.idx]
            IN  /\ s.idx \in 1..Len(s.pending)
                /\ Len(s.outcomes) = s.idx - 1
                /\ \A i \in 1..(s.idx - 1) : s.pending[i].id < answer.id
                /\ \A i \in (s.idx + 1)..Len(s.pending) : s.pending[i].id > answer.id
                /\ sync'[c].idx = s.idx + 1
                /\ Len(sync'[c].outcomes) = s.idx
                /\ \A n \in DOMAIN accepted' :
                     (n \notin DOMAIN accepted \/ accepted'[n] # accepted[n])
                     => n = answer.question_id]_vars

\* C15's case: the newest entry of a full stored queue is being submitted
\* after all the older ones have settled, the first of them with an error.
C15_Witness ==
    \E c \in SyncCalls :
       /\ sync[c].pc = "submit"
       /\ sync[c].pending = StoredQueue(MaxStored)
       /\ sync[c].idx = MaxStored
       /\ Len(sync[c].outcomes) = MaxStored - 1
       /\ sync[c].outcomes[1] = Thrown
       /\ DOMAIN accepted = 2..(MaxStored - 1)

\* C16: with the process stopping at any point of a drain, the persisted
\* queue holds, exactly once, every result the server has not answered
\* without error, and the drain that runs after the restart has them all in
\* its snapshot.
C16_CrashKeepsUnconfirmed ==
    \A n \in written \ DOMAIN accepted :
       /\ Copies(pendingAnswers, n) = 1
       /\ \A c \in SyncCalls : sync[c].pc = "submit" => InQueue(sync[c].pending, n)

\* C16's case: the process stopped in the middle of a drain, after its
\* first submission was answered and before it wrote the queue (no call is
\* in flight and no drain has ever stamped LAST_SYNC, though the server has
\* an answer on record); the queue still holds every result.
C16_Witness ==
    /\ \A c \in SyncCalls : sync[c].pc = "idle"
    /\ lastSync = << >>
    /\ DOMAIN accepted = {1}
    /\ pendingAnswers = StoredQueue(MaxStored)

\* The persisted questions that have expired at time t.
Expired(stored, t) == {i \in 1..Len(stored) : stored[i].expires_at <= t}

\* C17: clearExpiredCache called again right after it returned, the clock
\* not having advanced since the first call was made: the second call
\* removes nothing, returns 0 and leaves the persisted cache as the first
\* call left it.
C17_SweepIdempotent ==
    (sweep.prior # << >> /\ sweep.pc \in {"write", "done"} /\ now = sweep.prior[1].at)
    => /\ sweep.removed = 0
       /\ sweep.valid = sweep.prior[1].left
       /\ sweep.pc = "done" => cachedQuestions = sweep.prior[1].left

\* C17's case: a second call in a row has returned, at the time the first
\* was made, on a cache from which an expired question has been swept and in
\* which a valid one remains.
C17_Witness ==
    /\ sweep.prior # << >>
    /\ sweep.pc = "done"
    /\ now = sweep.prior[1].at
    /\ fetched = MaxFetches
    /\ Len(cachedQuestions) = 1

\* C18: clearExpiredCache keeps no expired question and returns the number
\* it removes: with k persisted questions expired when it is called (the
\* clock not advancing during the call), it returns k.
C18_SweepReturnsRemoved ==
    (sweep.pc = "write" /\ now = sweep.calledAt)
    => /\ Expired(sweep.valid, now) = {}
       /\ sweep.removed = Cardinality(Expired(cachedQuestions, sweep.calledAt))

\* The persisted questions of the topic (of any topic for NoTopic) that are
\* valid at time t: t < expires_at.
ValidItems(stored, t, topic) ==
    {i \in 1..Len(stored) :
       /\ t < stored[i].expires_at
       /\ topic # NoTopic => stored[i].topic_slug = topic}

\* C19: getCacheCount returns the number of persisted questions that are
\* valid when it reads the cache, of the given topic when one is given;
\* expired questions are not counted.
C19_CountsValidOnly ==
    [][(counting.pc = "read" /\ counting'.pc = "done")
       => counting'.ret = Cardinality(ValidItems(cachedQuestions, now, counting.topic_slug))]_vars

\* C19's case: every question cached for the topic has expired, and
\* getCacheCount for that topic returned 0.
C19_Witness ==
    /\ counting.pc = "done"
    /\ counting.topic_slug \in Topics
    /\ counting.ret = 0
    /\ Len(cachedQuestions) = MaxFetches
    /\ \A i \in 1..Len(cachedQuestions) :
         /\ cachedQuestions[i].topic_slug = counting.topic_slug
         /\ cachedQuestions[i].expires_at <= now

\* C20: a cacheQuestions call whose probe finds the device offline returns
\* 0 at once: no generateQuestion is issued and the persisted cache is not
\* written; a call whose probe finds it online goes on to fetch.
C20_FillFailsFastOffline ==
    [][/\ (fill.pc = "probe" /\ fill'.pc # "probe")
          => IF net # "on"
             THEN /\ fill'.pc = "done"
                  /\ fill'.ret = 0
                  /\ fill'.i = 0
                  /\ fill'.cached = << >>
                  /\ UNCHANGED <<cachedQuestions, fetched>>
             ELSE fill'.pc = "fetch"
       /\ (fill.pc = "done" /\ fill.i = 0 /\ fill' # fill)
          => /\ fill' = IdleFill
             /\ UNCHANGED <<cachedQuestions, fetched>>]_vars

\* C20's case: the cache holds questions, the device went offline, and a
\* cacheQuestions call for MaxCount questions returned 0 without fetching.
C20_Witness ==
    /\ fill.pc = "done"
    /\ fill.count = MaxCount
    /\ fill.i = 0
    /\ fill.ret = 0
    /\ net # "on"
    /\ cachedQuestions # << >>
    /\ fetched = Len(cachedQuestions)

C22_UniqueOrderedIds ==
    \A i, j \in 1..Len(pendingAnswers) :
       pendingAnswers[i].question_id < pendingAnswers[j].question_id
       => pendingAnswers[i].id < pendingAnswers[j].id

\* C23: no operation ends by raising an error to its caller, a failing
\* storage read or write included: no syncPendingAnswers call and no
\* queueAnswer call ever ends with a rejected promise.
C23_NeverRaises ==
    /\ \A c \in SyncCalls : sync[c].pc # "raised"
    /\ \A q \in QueueCalls : enq[q].pc # "raised"

\* C24: connectivity is reported conservatively: while the platform has
\* never been connected and the listener has been given no event yet, the
\* flag isOnline is false.
C24_ConservativeFlag ==
    (lastEv.cur = None /\ nev = 0 /\ net # "on") => ~isOnline

\* C25: the flag syncInProgress is released unconditionally: the step by
\* which a call that passed both guards ends, by returning the result or
\* with a failed write, leaves the flag false, and the flag is true only
\* while some call is between its guards and its end.
C25_GuardReleased ==
    [][/\ \A c \in SyncCalls :
            (sync[c].pc \in {"write", "stamp"} /\ sync'[c].pc \in {"done", "raised"})
            => ~syncInProgress'
       /\ syncInProgress'
          => \E c \in SyncCalls : sync'[c].pc \in {"read", "submit", "write", "stamp"}]_vars

\* C25's case: a call whose first submission raised and whose write of the
\* queue failed has ended with an error, and the flag is false.
C25_Witness ==
    \E c \in SyncCalls :
       /\ sync[c].pc = "raised"
       /\ sync[c].outcomes # << >>
       /\ sync[c].outcomes[1] = Thrown
       /\ lastSync = << >>
       /\ ~syncInProgress

\* C26: per-item isolation: a call that passed its guards submits every
\* entry of its snapshot exactly once, whatever the outcomes of the entries
\* before it: while it submits, one outcome is on record for each entry
\* before the current one and none for the others, and when it leaves the
\* loop there is one outcome for each entry of the snapshot.
C26_EveryEntrySubmitted ==
    \A c \in SyncCalls :
       LET s == sync[c]
       IN  /\ s.pc = "submit"
              => /\ s.idx \in 1..Len(s.pending)
                 /\ Len(s.outcomes) = s.idx - 1
           /\ (PassedGuards(s) /\ s.pc \in {"write", "stamp", "done"})
              => /\ Len(s.outcomes) = Len(s.pending)
                 /\ s.result.synced_answers + s.result.failed_answers = Len(s.pending)

\* C26's case: every submission but the last one failed, and the last
\* entry of the snapshot was submitted all the same and answered.
C26_Witness ==
    \E c \in SyncCalls :
       /\ sync[c].pc = "done"
       /\ sync[c].pending = StoredQueue(MaxStored)
       /\ \A i \in 1..(MaxStored - 1) : sync[c].outcomes[i] = Thrown
       /\ sync[c].outcomes[MaxStored] = Returned(TRUE, 1)
       /\ DOMAIN accepted = {MaxStored}

\* C27: a call that passed both guards stores the time at which it
\* completes in LAST_SYNC, whatever the number of failed submissions, and
\* completes in no other way; nothing else changes LAST_SYNC, so a call
\* that returns from a guard leaves it as it was.
C27_StampOnCompletion ==
    [][/\ \A c \in SyncCalls :
            /\ (sync[c].pc = "stamp" /\ sync'[c].pc = "done") => lastSync' = <<now>>
            /\ (sync[c].pc # "done" /\ sync'[c].pc = "done" /\ PassedGuards(sync'[c]))
               => sync[c].pc = "stamp"
            /\ (sync[c].pc \in {"idle", "probe"} /\ sync'[c].pc = "done")
               => UNCHANGED lastSync
            /\ (sync[c].pc = "done" /\ ~PassedGuards(sync[c]) /\ sync'[c] # sync[c])
               => UNCHANGED lastSync
       /\ lastSync' # lastSync
          => \E c \in SyncCalls : sync[c].pc = "stamp" /\ sync'[c].pc = "done"]_vars

\* C27's case: the only submission of a call failed, and LAST_SYNC holds
\* the time at which the call completed, later than the start.
C27_Witness ==
    \E c \in SyncCalls :
       /\ sync[c].pc = "done"
       /\ sync[c].outcomes = <<Thrown>>
       /\ sync[c].result.failed_answers = 1
       /\ now > 1
       /\ lastSync = <<now>>

\* The sequence without its k-th element.
Without(seq, k) == [i \in 1..(Len(seq) - 1) |-> IF i < k THEN seq[i] ELSE seq[i + 1]]

\* C28: getOfflineQuestion (the clock not advancing during the call) returns
\* the first valid question of the topic and its write removes that one
\* question only: the valid questions persisted before the write, all but
\* that one, are persisted after it in the same order; with no valid
\* question of the topic it returns null without writing.
C28_TakeRemovesOne ==
    [][\A t \in TakeCalls :
         /\ (take[t].pc = "write" /\ take'[t].pc = "done" /\ now = take[t].calledAt)
            => LET before == GetCachedQuestions(cachedQuestions, now, NoTopic)
               IN  \E k \in 1..Len(before) :
                     /\ before[k] = take[t].first
                     /\ \A i \in 1..(k - 1) : before[i].topic_slug # take[t].topic_slug
                     /\ take'[t].ret = before[k].question
                     /\ cachedQuestions' = Without(before, k)
         /\ (take[t].pc = "read1" /\ take'[t].pc = "done")
            => /\ take'[t].ret = Null
               /\ GetCachedQuestions(cachedQuestions, now, take[t].topic_slug) = << >>
               /\ UNCHANGED cachedQuestions]_vars

\* C29: no two questions in the persisted cache have the same id.
C29_UniqueCacheIds ==
    \A i, j \in 1..Len(cachedQuestions) :
       i # j => cachedQuestions[i].id # cachedQuestions[j].id

\* C30: cacheQuestions appends: its write leaves the questions that were
\* valid and persisted just before it, in their order, followed by the
\* questions it fetched, also when a getOfflineQuestion call ran meanwhile
\* (a question taken meanwhile is not persisted again).
C30_FillAppends ==
    [][(fill.pc = "write" /\ fill'.pc = "done")
       => cachedQuestions' = GetCachedQuestions(cachedQuestions, now, NoTopic) \o fill.cached]_vars

\* C31: every persisted question has expires_at = cached_at + 24 hours, and
\* getOfflineQuestion, getCacheCount and clearExpiredCache treat a question
\* as valid exactly when the current time is strictly before its expires_at:
\* getOfflineQuestion picks the first such question of the topic (null when
\* there is none), getCacheCount returns their number, clearExpiredCache
\* keeps exactly them.
C31_ExpiryRule ==
    [][/\ \A i \in 1..Len(cachedQuestions') :
            cachedQuestions'[i].expires_at = cachedQuestions'[i].cached_at + TTL
       /\ \A t \in TakeCalls :
            (take[t].pc = "read1" /\ take'[t].pc # "read1")
            => LET live == SelectSeq(cachedQuestions,
                                     LAMBDA q : now < q.expires_at
                                                /\ q.topic_slug = take[t].topic_slug)
               IN  IF live = << >>
                   THEN take'[t].pc = "done" /\ take'[t].ret = Null
                   ELSE take'[t].pc = "read2" /\ take'[t].first = live[1]
       /\ (counting.pc = "read" /\ counting'.pc = "done")
          => counting'.ret = Len(SelectSeq(cachedQuestions,
                                           LAMBDA q : /\ now < q.expires_at
                                                      /\ counting.topic_slug \in {NoTopic, q.topic_slug}))
       /\ (sweep.pc = "read" /\ sweep'.pc = "write")
          => sweep'.valid = SelectSeq(cachedQuestions, LAMBDA q : now < q.expires_at)]_vars

\* C31 witness: clearExpiredCache has read a cache holding a question whose
\* expires_at is the current time and a later one still valid, and keeps
\* the valid one only.
C31_Witness ==
    /\ sweep.pc = "write"
    /\ sweep.valid # << >>
    /\ \E i \in 1..Len(cachedQuestions) : cachedQuestions[i].expires_at = now
    /\ Len(sweep.valid) < Len(cachedQuestions)

\* C32: cacheQuestions sweeps before persisting: the list it hands to setItem
\* is the stored questions followed by the fetched ones without every
\* question, stored or fetched, whose expires_at has passed at that moment
\* (the moment the write is made), and that list is what the write persists.
C32_FillSweepsBeforePersisting ==
    [][/\ (fill.pc = "read" /\ fill'.pc = "write")
          => /\ fill'.valid = SelectSeq(cachedQuestions \o fill.cached,
                                        LAMBDA q : now < q.expires_at)
             /\ \A i \in 1..Len(fill'.valid) : fill'.valid[i].expires_at > now
       /\ (fill.pc = "write" /\ fill'.pc = "done")
          => cachedQuestions' = fill.valid]_vars

\* C32 witness: a cacheQuestions call that took 24 hours or more to fetch
\* writes the cache without the question it fetched and without a stored
\* question that has expired.
C32_Witness ==
    /\ fill.pc = "write"
    /\ fill.cached # << >>
    /\ \A i \in 1..Len(fill.cached) : fill.cached[i].expires_at <= now
    /\ cachedQuestions # << >>
    /\ fill.valid = << >>

\* C33: each completed queueAnswer adds one to the persisted
\* questions_answered_offline: with no queueAnswer in flight, the count is
\* the number of queueAnswer calls made, however the calls interleaved.
C33_StatsCountEnqueues ==
    (\A q \in QueueCalls : enq[q].pc = "idle") => offlineStats = serial

\* C34: a step of syncPendingAnswers changes neither the persisted questions
\* nor the progress snapshot; a step of cacheQuestions, getOfflineQuestion,
\* getCacheCount or clearExpiredCache does not change the persisted queue; a
\* step of saveProgress, getProgress or updateLocalMastery changes neither
\* the questions nor the queue and reaches neither generateQuestion nor
\* validateAnswer.
C34_ExclusiveOwnership ==
    [][/\ sync' # sync => UNCHANGED <<cachedQuestions, userProgress>>
       /\ (fill' # fill \/ take' # take \/ counting' # counting \/ sweep' # sweep)
          => UNCHANGED pendingAnswers
       /\ prog' # prog
          => UNCHANGED <<cachedQuestions, pendingAnswers, fetched, accepted>>]_vars

\* C34 witness: with questions cached and a snapshot stored,
\* syncPendingAnswers has synced results and written the queue without them.
C34_Witness ==
    /\ cachedQuestions # << >>
    /\ userProgress # << >>
    /\ \E c \in SyncCalls :
         /\ sync[c].pc = "stamp"
         /\ sync[c].result.synced_answers > 0
         /\ Len(pendingAnswers) < Len(sync[c].pending)

\* C35: getProgress returns the stored snapshot, null when there is none;
\* the stored snapshot is absent at first, becomes absent when clearAllData
\* removes it and otherwise changes only when a write takes effect, to the
\* object written; saveProgress(progress) writes the given progress whole,
\* with last_updated set to the time of the call.
C35_ProgressReadWrite ==
    [][/\ \A p \in ProgressCalls :
            /\ (prog[p].pc = "read" /\ prog[p].op = "get" /\ prog'[p].pc = "done")
               => prog'[p].ret = userProgress
            /\ (prog[p].pc = "idle" /\ prog'[p].op = "save")
               => \E progress \in Progresses :
                     prog'[p].value = <<OfflineProgress(progress.user_id, progress.total_xp,
                                                        progress.level, progress.streak,
                                                        progress.topic_mastery, now)>>
            /\ (prog[p].pc = "write" /\ prog'[p].pc = "done")
               => userProgress' = prog[p].value
       /\ userProgress' # userProgress
          => \/ \E p \in ProgressCalls : prog[p].pc = "write" /\ prog'[p].pc = "done"
             \/ userProgress' = << >> /\ "USER_PROGRESS" \in clear.left]_vars

\* C35 witness: getProgress has returned the stored snapshot, one that
\* saveProgress wrote and updateLocalMastery wrote again later, and
\* clearAllData is about to remove it.
C35_Witness ==
    /\ prog[1].pc = "done"
    /\ prog[1].op = "get"
    /\ prog[1].ret = userProgress
    /\ userProgress # << >>
    /\ userProgress[1].last_updated > 0
    /\ userProgress[1].user_id = "u2"
    /\ "algebra" \in DOMAIN userProgress[1].topic_mastery
    /\ clear.pc = "removing"
    /\ "USER_PROGRESS" \in clear.left

\* C36 as stated, for an experience delta of 1: the snapshot written by
\* updateLocalMastery has the total experience of the snapshot read plus the
\* delta.
C36_MergesXpDelta ==
    [][\A p \in ProgressCalls :
         (prog[p].pc = "read" /\ prog[p].op = "mastery" /\ prog'[p].pc = "write")
         => prog'[p].value[1].total_xp = userProgress[1].total_xp + 1]_vars

\* C36 amended: updateLocalMastery(topic_slug, mastery) writes the snapshot
\* it read with that topic's mastery set to the given value and last_updated
\* set to the current time: user_id, total_xp, level, streak and every other
\* topic's mastery are as read; when it reads no snapshot it writes nothing.
C36_MasteryMerge ==
    [][\A p \in ProgressCalls :
         /\ (prog[p].pc = "read" /\ prog[p].op = "mastery" /\ prog'[p].pc # "read")
            => /\ UNCHANGED userProgress
               /\ \/ prog'[p].pc = "done" /\ prog'[p].value = << >>
                  \/ /\ userProgress # << >>
                     /\ prog'[p].pc = "write"
                     /\ LET old == userProgress[1]
                            new == prog'[p].value[1]
                            topic == prog[p].topic_slug
                        IN  /\ new.user_id = old.user_id
                            /\ new.total_xp = old.total_xp
                            /\ new.level = old.level
                            /\ new.streak = old.streak
                            /\ new.last_updated = now
                            /\ DOMAIN new.topic_mastery = DOMAIN old.topic_mastery \cup {topic}
                            /\ new.topic_mastery[topic] = prog[p].mastery
                            /\ \A t \in DOMAIN old.topic_mastery \ {topic} :
                                 new.topic_mastery[t] = old.topic_mastery[t]
               /\ userProgress = << >> => prog'[p].pc = "done"
         /\ (prog[p].pc = "write" /\ prog[p].op = "mastery" /\ prog'[p].pc = "done")
            => userProgress' = prog[p].value
         /\ (prog[p].pc = "done" /\ prog[p].op = "mastery" /\ prog[p].value = << >>)
            => UNCHANGED userProgress \/ prog'[p] = prog[p]]_vars

\* C36 witness: updateLocalMastery for algebra has read a snapshot with a
\* mastery for arithmetic only, saved at an earlier time, and is about to
\* write it with both.
C36_Witness ==
    \E p \in ProgressCalls :
       /\ prog[p].pc = "write"
       /\ prog[p].op = "mastery"
       /\ prog[p].topic_slug = "algebra"
       /\ userProgress # << >>
       /\ DOMAIN userProgress[1].topic_mastery = {"arithmetic"}
       /\ userProgress[1].last_updated < now
       /\ DOMAIN prog[p].value[1].topic_mastery = Topics

\* C37: a syncPendingAnswers call that passed both guards starts from the
\* result {0, 0, 0, []}; after each submission synced_answers +
\* failed_answers is the number of submissions made, errors has one message
\* per failure and new_xp is the sum of xp_earned over the submissions that
\* were answered; when the loop is over the submissions made are the
\* entries of the snapshot.
C37_OutcomeAccounting ==
    \A c \in SyncCalls :
       LET s == sync[c]
           r == s.result
       IN  PassedGuards(s)
           => /\ s.pc = "read" => r = SyncResult(0, 0, 0, << >>)
              /\ r.synced_answers + r.failed_answers = Len(s.outcomes)
              /\ Len(r.errors) = r.failed_answers
              /\ r.failed_answers = NThrown(s.outcomes)
              /\ r.new_xp = SumXp(s.outcomes)
              /\ s.pc \in {"write", "stamp", "done"} => Len(s.outcomes) = Len(s.pending)

\* C37 witness: a second drain, over the two results an earlier drain left,
\* ends with one synced for 1 xp and one failed, the earlier drain's counts
\* not among them.
C37_Witness ==
    \E c \in SyncCalls :
       /\ sync[c].pc = "done"
       /\ Len(sync[c].pending) = 2
       /\ lastSync # << >>
       /\ Cardinality(DOMAIN accepted) = 2
       /\ Len(pendingAnswers) = 1
       /\ sync[c].result = SyncResult(1, 1, 1, <<ErrFailed(pendingAnswers[1])>>)

====
